---- MODULE Spec2Model ----
(***************************************************************************)
(* Model of the polymarket bot arena: the decision blender                 *)
(* (BaseBot.make_decision and its sizing variants), the risk-gated         *)
(* execution router (BaseBot.execute, BtcMakerBot.execute), the main loop  *)
(* with its per-epoch dedup set (arena.main_loop) and the evolution        *)
(* scheduler (arena.run_evolution, arena.create_evolved_bot).              *)
(*                                                                         *)
(* Numbers.  Probabilities and confidences that enter make_decision are    *)
(* hundredths (0..100); combined_yes and the returned confidence are       *)
(* thousandths (0..1000); money is in millionths of a currency unit, so    *)
(* that every product in the source is an exact integer here.              *)
(***************************************************************************)
EXTENDS Integers, Sequences, FiniteSets, Bags, TLC

VARIABLES
    bots,          \* main_loop: the population, a sequence of bot records
    traded,        \* main_loop: the set of (bot name, market id) pairs done
    ledger,        \* db: the trades table, a sequence of trade records
    outcomes,      \* settlement API: each market's resolution, if any
    cycle_number,  \* main_loop: number of evolution cycles run
    pc,            \* main_loop: where the while loop stands ("top", "resolve",
                   \* "discover", "scan", "sleep")
    scan,          \* main_loop: five_min_markets of this iteration + position
    day,           \* wall clock: the current calendar day
    mode,          \* config.get_current_mode()
    bot_configs,   \* db: the bots table (saved configs, retired flag)
    history,       \* db: the evolution log
    evt,           \* the last operation that ran and what it returned
    execCalls,     \* bag of (bot name, market id) execute calls this epoch
    dIn,           \* make_decision: the inputs of the call under test
    dOut,          \* make_decision: the decision it returned
    pnlIn          \* run_evolution: trailing-window pnl per population slot

vars == <<bots, traded, ledger, outcomes, cycle_number, pc, scan, day, mode,
          bot_configs, history, evt, execCalls, dIn, dOut, pnlIn>>

(***************************************************************************)
(* Bounds of the model                                                     *)
(***************************************************************************)
GridStep == 5          \* make_decision inputs: every GridStep hundredths
MaxCycles == 1         \* evolution cycles explored
MaxTrades == 1         \* ledger rows explored in the arena
MaxRows == 2           \* ledger rows explored under direct execute calls
MaxDay == 1            \* calendar days explored after the first
NumMarkets == 2        \* distinct market ids the discovery can return
MaxSuffix == 1         \* distinct random name suffixes explored

(***************************************************************************)
(* config (the module is not part of the sources; values from its uses)    *)
(***************************************************************************)
SURVIVORS_PER_CYCLE == 2
PAPER_MAX_POSITION == 2          \* whole currency units
LIVE_MAX_POSITION == 1
MAX_DAILY_LOSS_PER_BOT == 96000  \* millionths of a unit
MAX_DAILY_LOSS_TOTAL == 120000

Micro == 1000 * 1000

Modes == {"paper", "live"}

get_max_position(m) == IF m = "live" THEN LIVE_MAX_POSITION ELSE PAPER_MAX_POSITION

Min(a, b) == IF a <= b THEN a ELSE b
Max(a, b) == IF a >= b THEN a ELSE b
Abs(a) == IF a >= 0 THEN a ELSE 0 - a

(***************************************************************************)
(* Decision blender: BaseBot.make_decision                                 *)
(***************************************************************************)
Grid == {k * GridStep : k \in 0..(100 \div GridStep)}

Sides == {"yes", "no"}

\* What analyze returns, as far as make_decision reads it.
RawSignals == [action : {"hold", "buy"}, side : Sides, confidence : Grid]

\* base_bot.py:89-103  (thousandths)
combined_yes(raw, learned_yes_bias) ==
    IF raw.action # "hold"
    THEN LET strategy_yes == IF raw.side = "yes" THEN 1 ELSE 0
             strategy_conf == raw.confidence
         IN  strategy_yes * strategy_conf * 6
             + learned_yes_bias * 4
             + (100 - strategy_conf) * 3
    ELSE learned_yes_bias * 10

\* base_bot.py:106
side_of_wrong(cy) == IF cy >= 500 THEN "yes" ELSE "no"

side_of(cy) == IF cy > 500 THEN "yes" ELSE "no"

\* base_bot.py:107-108  (thousandths)
confidence_of(cy) == Max(100, Min(950, Abs(cy - 500) * 2))

\* base_bot.py:111-114  (millionths)
bet_amount_wrong(confidence, max_pos) ==
    LET min_bet == max_pos * 20000
        max_bet == max_pos * 100000
    IN  max_bet - ((max_bet - min_bet) * confidence) \div 1000

bet_amount(confidence, max_pos) ==
    LET min_bet == max_pos * 20000
        max_bet == max_pos * 100000
    IN  min_bet + ((max_bet - min_bet) * confidence) \div 1000

\* base_bot.py:59-123
make_decision_wrong(raw, learned_yes_bias, m) ==
    [action |-> raw.action,
     side |-> side_of(combined_yes(raw, learned_yes_bias)),
     confidence |-> confidence_of(combined_yes(raw, learned_yes_bias)),
     suggested_amount |->
         bet_amount(confidence_of(combined_yes(raw, learned_yes_bias)),
                    get_max_position(m))]

make_decision(raw, learned_yes_bias, m) ==
    LET cy == combined_yes(raw, learned_yes_bias)
        confidence == confidence_of(cy)
    IN  [action |-> "buy",
         side |-> side_of(cy),
         confidence |-> confidence,
         suggested_amount |-> bet_amount(confidence, get_max_position(m))]

\* bot_meanrev_sl.py:26-40
make_decision_sl_scaled_confidence(raw, learned_yes_bias, m) ==
    LET decision == make_decision(raw, learned_yes_bias, m)
    IN  [decision EXCEPT
            !.confidence = Min((decision.confidence * 3) \div 2, 950),
            !.suggested_amount =
                 Min((decision.suggested_amount * 3) \div 2,
                     get_max_position(m) * Micro)]

make_decision_sl(raw, learned_yes_bias, m) ==
    LET decision == make_decision(raw, learned_yes_bias, m)
    IN  IF decision.action = "buy"
        THEN [decision EXCEPT !.suggested_amount =
                 Min((decision.suggested_amount * 3) \div 2,
                     get_max_position(m) * Micro)]
        ELSE decision

\* bot_meanrev_tp.py:29-40  (only the reasoning text changes)
make_decision_tp(raw, learned_yes_bias, m) ==
    make_decision(raw, learned_yes_bias, m)

Variants == {"base", "stop_loss", "take_profit"}

decide(variant, raw, learned_yes_bias, m) ==
    CASE variant = "stop_loss" -> make_decision_sl(raw, learned_yes_bias, m)
      [] variant = "take_profit" -> make_decision_tp(raw, learned_yes_bias, m)
      [] OTHER -> make_decision(raw, learned_yes_bias, m)

DecisionInputs == [variant : Variants, raw : RawSignals, bias : Grid, mode : Modes]

NoDecision == [action |-> "none"]

(***************************************************************************)
(* Bots                                                                    *)
(***************************************************************************)
Types == {"momentum", "mean_reversion", "sentiment", "hybrid"}

\* DEFAULT_PARAMS of each strategy module: the keys of strategy_params.
DEFAULT_PARAMS(t) ==
    CASE t = "momentum" ->
           {"lookback_candles", "momentum_threshold", "position_size_pct",
            "min_confidence", "trend_strength_weight", "volume_weight"}
      [] t = "mean_reversion" ->
           {"lookback_candles", "bb_std_dev", "rsi_period", "rsi_oversold",
            "rsi_overbought", "reversion_threshold", "position_size_pct",
            "min_confidence"}
      [] t = "sentiment" ->
           {"sentiment_window_min", "bullish_threshold", "bearish_threshold",
            "influencer_weight", "noise_filter_min_posts", "position_size_pct",
            "min_confidence", "sentiment_momentum_weight",
            "raw_sentiment_weight"}
      [] t = "hybrid" ->
           {"momentum_weight", "mean_rev_weight", "sentiment_weight",
            "confidence_threshold", "agreement_bonus", "position_size_pct",
            "min_confidence"}
      [] OTHER ->  \* btc_maker
           {"spread_ticks", "size_shares", "directional_weight",
            "min_edge_bps", "max_open_orders", "position_size_pct",
            "lookback_candles"}

\* What the market data lets analyze do: return hold at once for lack of
\* data, compute and return hold, or compute and return a buy.
Paths == {"insufficient", "hold", "buy"}

\* The keys analyze of strategy class t reads from strategy_params on a path.
AnalyzeReads(t, path) ==
    CASE t = "momentum" ->
           {"lookback_candles"}
           \cup (IF path = "insufficient" THEN {}
                 ELSE {"momentum_threshold", "trend_strength_weight",
                       "volume_weight"})
           \cup (IF path = "buy" THEN {"position_size_pct"} ELSE {})
      [] t = "mean_reversion" ->
           {"lookback_candles"}
           \cup (IF path = "insufficient" THEN {}
                 ELSE {"rsi_period", "reversion_threshold"})
           \cup (IF path = "buy"
                 THEN {"rsi_overbought", "rsi_oversold", "position_size_pct"}
                 ELSE {})
      [] t = "sentiment" ->
           (IF path = "insufficient" THEN {}
            ELSE {"noise_filter_min_posts", "influencer_weight",
                  "raw_sentiment_weight", "sentiment_momentum_weight",
                  "bullish_threshold", "bearish_threshold"})
           \cup (IF path = "buy" THEN {"position_size_pct"} ELSE {})
      [] t = "hybrid" ->
           {"momentum_weight", "mean_rev_weight", "sentiment_weight"}
           \cup (IF path = "insufficient" THEN {}
                 ELSE {"agreement_bonus", "confidence_threshold"})
           \cup (IF path = "buy" THEN {"position_size_pct"} ELSE {})
      [] OTHER ->  \* btc_maker
           {"lookback_candles", "directional_weight", "spread_ticks",
            "min_edge_bps"}
           \cup (IF path = "buy" THEN {"position_size_pct"} ELSE {})

\* analyze raises KeyError when it reads a key strategy_params lacks.
AnalyzeRaises(b, path) == ~(AnalyzeReads(b.strategy_type, path) \subseteq b.strategy_params)

\* A bot name: <<"momentum", 0, 0>> is "momentum-v1" and so on for the
\* default bots; <<t, g, r>> with g > 0 is f"{t}-g{g}-{r}".
DefaultName(t) == <<t, 0, 0>>

\* BaseBot.__init__
NewBot(name, stype, params, generation, lineage) ==
    [name |-> name, strategy_type |-> stype, strategy_params |-> params,
     generation |-> generation, lineage |-> lineage, paused |-> FALSE]

\* arena.create_default_bots
create_default_bots ==
    << NewBot(DefaultName("momentum"), "momentum", DEFAULT_PARAMS("momentum"), 0, <<DefaultName("momentum")>>),
       NewBot(DefaultName("mean_reversion"), "mean_reversion", DEFAULT_PARAMS("mean_reversion"), 0, <<DefaultName("mean_reversion")>>),
       NewBot(DefaultName("sentiment"), "sentiment", DEFAULT_PARAMS("sentiment"), 0, <<DefaultName("sentiment")>>),
       NewBot(DefaultName("hybrid"), "hybrid", DEFAULT_PARAMS("hybrid"), 0, <<DefaultName("hybrid")>>) >>

Names(bs) == {bs[i].name : i \in DOMAIN bs}

(***************************************************************************)
(* Ledger (db.trades) and the risk figures read from it                    *)
(***************************************************************************)
Markets == 1..NumMarkets

\* db.log_trade: the row it appends.
TradeRow(bot_name, market_id, side, amount, m) ==
    [bot_name |-> bot_name, market_id |-> market_id, side |-> side,
     amount |-> amount, mode |-> m, outcome |-> "pending", pnl |-> 0,
     day |-> day, epoch |-> cycle_number,
     recorded |-> 0]   \* learning.record_outcome calls made for this trade

RECURSIVE SumLoss(_, _, _, _)
SumLoss(rows, who, m, d) ==
    IF rows = <<>> THEN 0
    ELSE LET t == Head(rows)
         IN  (IF t.outcome = "loss" /\ t.mode = m /\ t.day = d
                 /\ (who = "all" \/ t.bot_name = who)
              THEN 0 - t.pnl ELSE 0)
             + SumLoss(Tail(rows), who, m, d)

\* db.get_bot_daily_loss(name, mode): the bot's realized loss today
get_bot_daily_loss(name, m) == SumLoss(ledger, name, m, day)

\* db.get_total_daily_loss(mode): the arena's realized loss today
get_total_daily_loss(m) == SumLoss(ledger, "all", m, day)

RECURSIVE SumPnl(_, _, _)
SumPnl(rows, who, ep) ==
    IF rows = <<>> THEN 0
    ELSE LET t == Head(rows)
         IN  (IF t.bot_name = who /\ t.epoch = ep THEN t.pnl ELSE 0)
             + SumPnl(Tail(rows), who, ep)

\* bot.get_performance(hours=12)["total_pnl"]: the trailing window is the
\* evolution interval, i.e. the epoch that is ending.
total_pnl(name) == SumPnl(ledger, name, cycle_number)

(***************************************************************************)
(* Execution router: BaseBot.execute and BtcMakerBot.execute               *)
(***************************************************************************)
\* The signal execute receives.  A decision of make_decision carries no
\* maker fields; a signal of BtcMakerBot.analyze carries maker_side and the
\* two quotes.
SignalOf(decision) ==
    [side |-> decision.side, confidence |-> decision.confidence,
     has_amount |-> TRUE, suggested_amount |-> decision.suggested_amount,
     maker_side |-> "absent", maker_quotes |-> FALSE]

\* What the collaborators answer during one execute call.
Envs == [settle : {"ok", "reject", "exception"},   \* first order submitted
         settle2 : {"ok", "reject"},               \* second (maker ask)
         token_yes : BOOLEAN, token_no : BOOLEAN,  \* instrument ids present
         bot_mode : Modes,                         \* db.get_bot_mode(name)
         db_error : BOOLEAN]                       \* the risk query fails

\* What one execute call does: the bot's pause flag after it, the rows it
\* appended to the ledger, and what it returned.
Outcome(paused, rows, success, reason) ==
    [paused |-> paused, rows |-> rows, success |-> success, reason |-> reason,
     raised |-> FALSE]

\* The call leaves by an exception instead of returning a result.
Raises(paused) ==
    [paused |-> paused, rows |-> <<>>, success |-> FALSE, reason |-> "raised",
     raised |-> TRUE]

\* base_bot.py:157-159, bot_btc_maker.py:180-182  except Exception around
\* the submission: the exception becomes a failure result
catch_exception(out) ==
    IF out.raised THEN Outcome(out.paused, <<>>, FALSE, "exception") ELSE out

\* base_bot.py:149, bot_btc_maker.py:173  the amount that is submitted
clamp_amount_suggested(signal, max_pos) ==
    IF signal.has_amount THEN signal.suggested_amount ELSE max_pos \div 2

clamp_amount(signal, max_pos) ==
    Min(IF signal.has_amount THEN signal.suggested_amount ELSE max_pos \div 2,
        max_pos)

\* base_bot.py:203-242
execute_paper(b, signal, market_id, amount, m, env) ==
    CASE env.settle = "ok" ->
           Outcome(b.paused,
                   << TradeRow(b.name, market_id, signal.side, amount, m) >>,
                   TRUE, "none")
      [] env.settle = "reject" ->
           Outcome(b.paused, <<>>, FALSE, "api_error")
      [] OTHER ->  \* requests.post raised
           Raises(b.paused)

\* base_bot.py:244-282
execute_live_log_first(b, signal, market_id, amount, m, env) ==
    LET token_id == IF signal.side = "yes" THEN env.token_yes ELSE env.token_no
    IN  CASE ~token_id ->
               Outcome(b.paused, <<>>, FALSE, "missing_token_id")
          [] env.settle = "ok" ->
               Outcome(b.paused,
                       << TradeRow(b.name, market_id, signal.side, amount, m) >>,
                       TRUE, "none")
          [] OTHER ->
               Outcome(b.paused,
                       << TradeRow(b.name, market_id, signal.side, amount, m) >>,
                       FALSE, "none")

execute_live(b, signal, market_id, amount, m, env) ==
    LET token_id == IF signal.side = "yes" THEN env.token_yes ELSE env.token_no
    IN  CASE ~token_id ->
               Outcome(b.paused, <<>>, FALSE, "missing_token_id")
          [] env.settle = "ok" ->
               Outcome(b.paused,
                       << TradeRow(b.name, market_id, signal.side, amount, m) >>,
                       TRUE, "none")
          [] OTHER ->
               \* polymarket_client.py:90-96, 119-121  the order was rejected
               \* or its submission raised: place_market_order returns
               \* success False with "error", and the result has no "reason"
               Outcome(b.paused, <<>>, FALSE, "none")

\* base_bot.py:125-159
BaseBot_execute_no_gate(b, signal, market_id, env) ==
    LET m == mode
        max_pos == get_max_position(m) * Micro
        amount == clamp_amount(signal, max_pos)
    IN  CASE env.db_error ->
               Raises(b.paused)
          [] m = "live" ->
               catch_exception(execute_live(b, signal, market_id, amount, m, env))
          [] OTHER ->
               catch_exception(execute_paper(b, signal, market_id, amount, m, env))

BaseBot_execute_pause_on_total(b, signal, market_id, env) ==
    LET m == mode
        max_pos == get_max_position(m) * Micro
        amount == clamp_amount(signal, max_pos)
    IN  CASE b.paused ->
               Outcome(TRUE, <<>>, FALSE, "bot_paused")
          [] env.db_error ->  \* db.get_bot_daily_loss raised, outside the try
               Raises(b.paused)
          [] get_bot_daily_loss(b.name, m) >= MAX_DAILY_LOSS_PER_BOT ->
               Outcome(TRUE, <<>>, FALSE, "daily_loss_limit")
          [] get_total_daily_loss(m) >= MAX_DAILY_LOSS_TOTAL ->
               Outcome(TRUE, <<>>, FALSE, "arena_loss_limit")
          [] m = "live" ->
               catch_exception(execute_live(b, signal, market_id, amount, m, env))
          [] OTHER ->
               catch_exception(execute_paper(b, signal, market_id, amount, m, env))

BaseBot_execute(b, signal, market_id, env) ==
    LET m == mode
        max_pos == get_max_position(m) * Micro
        amount == clamp_amount(signal, max_pos)
    IN  CASE b.paused ->
               Outcome(TRUE, <<>>, FALSE, "bot_paused")
          [] env.db_error ->  \* db.get_bot_daily_loss raised, outside the try
               Raises(b.paused)
          [] get_bot_daily_loss(b.name, m) >= MAX_DAILY_LOSS_PER_BOT ->
               Outcome(TRUE, <<>>, FALSE, "daily_loss_limit")
          [] get_total_daily_loss(m) >= MAX_DAILY_LOSS_TOTAL ->
               Outcome(b.paused, <<>>, FALSE, "arena_loss_limit")
          [] m = "live" ->
               catch_exception(execute_live(b, signal, market_id, amount, m, env))
          [] OTHER ->
               catch_exception(execute_paper(b, signal, market_id, amount, m, env))

\* bot_btc_maker.py:184-270
execute_maker_live(b, signal, market_id, amount, env) ==
    LET maker_side == IF signal.maker_side = "absent" THEN "yes"
                      ELSE signal.maker_side
        post_bid == maker_side \in {"yes", "both"} /\ signal.maker_quotes
                    /\ env.token_yes
        post_ask == maker_side \in {"no", "both"} /\ signal.maker_quotes
                    /\ env.token_no
        bid_ok == post_bid /\ env.settle = "ok"
        ask_ok == post_ask /\ env.settle2 = "ok"
        bid_rows == IF bid_ok
                    THEN << TradeRow(b.name, market_id, "yes", amount, "live") >>
                    ELSE <<>>
        ask_rows == IF ask_ok
                    THEN << TradeRow(b.name, market_id, "no", amount, "live") >>
                    ELSE <<>>
    IN  \* polymarket_client.py:193-195  place_limit_order returns a failed
        \* result for an order whose submission raised
        Outcome(b.paused, bid_rows \o ask_rows, bid_ok \/ ask_ok, "none")

\* bot_btc_maker.py:145-182
BtcMakerBot_execute(b, signal, market_id, env) ==
    LET m == env.bot_mode
        max_pos == get_max_position(m) * Micro
        amount == clamp_amount(signal, max_pos)
    IN  CASE b.paused ->
               Outcome(TRUE, <<>>, FALSE, "bot_paused")
          [] env.db_error ->  \* db.get_bot_daily_loss raised, outside the try
               Raises(b.paused)
          [] get_bot_daily_loss(b.name, m) >= MAX_DAILY_LOSS_PER_BOT ->
               Outcome(TRUE, <<>>, FALSE, "daily_loss_limit")
          [] get_total_daily_loss(m) >= MAX_DAILY_LOSS_TOTAL ->
               Outcome(b.paused, <<>>, FALSE, "arena_loss_limit")
          [] m = "live" ->
               catch_exception(execute_maker_live(b, signal, market_id, amount, env))
          [] OTHER ->
               catch_exception(execute_paper(b, signal, market_id, amount, m, env))

\* Dispatch on the bot's class.
execute(b, signal, market_id, env) ==
    IF b.strategy_type = "btc_maker"
    THEN BtcMakerBot_execute(b, signal, market_id, env)
    ELSE BaseBot_execute(b, signal, market_id, env)

\* The trading mode the call works in: base_bot.py:131, bot_btc_maker.py:156
execute_mode(b, env) ==
    IF b.strategy_type = "btc_maker" THEN env.bot_mode ELSE mode

\* The answers a call on bot b can tell apart: BaseBot.execute reads
\* neither db.get_bot_mode nor a second order's result, the paper path
\* reads neither the instrument ids nor a second order's result, and a call
\* whose risk query fails reads nothing after it.
EnvsFor(b) ==
    {e \in Envs :
        /\ e.db_error
              => (e.settle = "ok" /\ e.settle2 = "reject" /\ e.token_yes
                  /\ e.token_no /\ e.bot_mode = "paper")
        /\ b.strategy_type # "btc_maker"
              => (e.settle2 = "reject" /\ e.bot_mode = "paper")
        /\ execute_mode(b, e) = "paper"
              => (e.settle2 = "reject" /\ e.token_yes /\ e.token_no)}

(***************************************************************************)
(* Evolution scheduler: arena.run_evolution, arena.create_evolved_bot      *)
(***************************************************************************)
\* arena.py:55-61  bot_classes.get(loser_type, MomentumBot): the strategy
\* type the chosen class gives its instances.
bot_class_fallback(loser_type) == "momentum"

bot_class(loser_type) == IF loser_type \in Types THEN loser_type ELSE "momentum"

\* base_bot.py:179-197  mutate perturbs values of numeric keys; the key set
\* of the copy is the key set of winning_params.
mutate_keys(winning_params) == winning_params

\* arena.py:49-67
create_evolved_bot_default_lineage(winner, loser_type, gen_number, r) ==
    LET name == <<loser_type, gen_number, r>>
    IN  NewBot(name, bot_class(loser_type),
               mutate_keys(winner.strategy_params), gen_number, <<name>>)

create_evolved_bot_parent_gen(winner, loser_type, gen_number, r) ==
    LET name == <<loser_type, gen_number, r>>
    IN  NewBot(name, bot_class(loser_type),
               mutate_keys(winner.strategy_params), winner.generation,
               <<winner.name, name>>)

create_evolved_bot(winner, loser_type, gen_number, r) ==
    LET new_params == mutate_keys(winner.strategy_params)
        name == <<loser_type, gen_number, r>>
    IN  NewBot(name, bot_class(loser_type), new_params, gen_number,
               <<winner.name, name>>)

\* arena.py:87  rankings.sort(key=pnl, reverse=True): a stable sort, so
\* equal pnls keep population order.  RankOf is the 1-based position.
RankOf_ascending(pnl, i) ==
    1 + Cardinality({j \in DOMAIN pnl :
                        pnl[j] < pnl[i] \/ (pnl[j] = pnl[i] /\ j < i)})

RankOf_ties_reversed(pnl, i) ==
    1 + Cardinality({j \in DOMAIN pnl :
                        pnl[j] > pnl[i] \/ (pnl[j] = pnl[i] /\ j > i)})

RankOf(pnl, i) ==
    1 + Cardinality({j \in DOMAIN pnl :
                        pnl[j] > pnl[i] \/ (pnl[j] = pnl[i] /\ j < i)})

\* arena.py:75-87
Rankings(bs, pnl) ==
    [r \in DOMAIN bs |->
        LET i == CHOOSE j \in DOMAIN bs : RankOf(pnl, j) = r
        IN  [name |-> bs[i].name, strategy_type |-> bs[i].strategy_type,
             generation |-> bs[i].generation, pnl |-> pnl[i]]]

\* db.retire_bot
retire_bot(configs, name) ==
    [k \in DOMAIN configs |->
        IF configs[k].bot_name = name
        THEN [configs[k] EXCEPT !.active = FALSE] ELSE configs[k]]

\* db.save_bot_config
ConfigRow(b) ==
    [bot_name |-> b.name, strategy_type |-> b.strategy_type,
     generation |-> b.generation, lineage |-> b.lineage, active |-> TRUE]

\* arena.py:105-124  the loop over the replaced bots: k-th replaced bot
\* gets parent winners[parent[k]] and name suffix suffix[k].
RECURSIVE Replace(_, _, _, _, _, _, _)
Replace(replaced, winners, cycle, parent, suffix, k, acc) ==
    IF k > Len(replaced) THEN acc
    ELSE LET dead_bot == replaced[k]
             evolved == create_evolved_bot(winners[parent[k]],
                                           dead_bot.strategy_type, cycle,
                                           suffix[k])
         IN  Replace(replaced, winners, cycle, parent, suffix, k + 1,
                     [new_bots |-> Append(acc.new_bots, evolved),
                      configs |-> Append(retire_bot(acc.configs, dead_bot.name),
                                         ConfigRow(evolved))])

\* base_bot.py:199-201
reset_daily_noop(b) == b

reset_daily(b) == [b EXCEPT !.paused = FALSE]

\* arena.py:70-135
run_evolution(bs, cycle, pnl, parent, suffix) ==
    LET rankings == Rankings(bs, pnl)
        K == SURVIVORS_PER_CYCLE
        survivor_names == {rankings[i].name : i \in 1..K}
        replaced_names == {rankings[i].name : i \in (K + 1)..Len(rankings)}
        IsSurvivor(b) == b.name \in survivor_names
        IsReplaced(b) == b.name \in replaced_names
        kept == [i \in DOMAIN bs |->
                    IF IsSurvivor(bs[i]) THEN reset_daily(bs[i]) ELSE bs[i]]
        winners == SelectSeq(kept, IsSurvivor)
        replaced == SelectSeq(kept, IsReplaced)
        done == Replace(replaced, winners, cycle, parent, suffix, 1,
                        [new_bots |-> winners, configs |-> bot_configs])
    IN  [new_bots |-> done.new_bots,
         configs |-> done.configs,
         entry |-> [cycle_number |-> cycle,
                    survivors |-> survivor_names,
                    replaced |-> replaced_names,
                    new_bots |-> {done.new_bots[i].name : i \in
                                     {j \in DOMAIN done.new_bots :
                                         done.new_bots[j].name \notin survivor_names}},
                    rankings |-> [i \in DOMAIN rankings |->
                                     [name |-> rankings[i].name,
                                      pnl |-> rankings[i].pnl]]]]

(***************************************************************************)
(* The arena: arena.main and arena.main_loop                               *)
(***************************************************************************)
NoScan == [markets |-> <<>>, mi |-> 0, bi |-> 0, bad_prices |-> FALSE]

NoEvt == [op |-> "none", bot |-> <<>>, success |-> FALSE,
          reason |-> "none", raised |-> FALSE, rows |-> 0, mode |-> "none",
          listing |-> {}]

OpEvt(op) == [NoEvt EXCEPT !.op = op]

RECURSIVE ConfigRows(_)
ConfigRows(bs) ==
    IF bs = <<>> THEN <<>> ELSE <<ConfigRow(Head(bs))>> \o ConfigRows(Tail(bs))

\* arena.py:395-403 and arena.py:289-294: the state main_loop starts in.
ArenaInit ==
    /\ bots = create_default_bots
    /\ traded = {}
    /\ ledger = <<>>
    /\ outcomes = [m \in Markets |-> "future"]
    /\ cycle_number = 0
    /\ pc = "top"
    /\ scan = NoScan
    /\ day = 0
    /\ mode \in Modes
    /\ bot_configs = ConfigRows(create_default_bots)
    /\ history = <<>>
    /\ evt = NoEvt
    /\ execCalls = EmptyBag

\* The arena's variables, as a group, for the steps that leave them alone.
arena_vars == <<bots, traded, ledger, outcomes, cycle_number, pc, scan, day,
                mode, bot_configs, history, evt, execCalls>>

Init ==
    /\ ArenaInit
    /\ dIn = <<>>
    /\ dOut = NoDecision
    /\ pnlIn = <<>>

\* What the strategies and the bias oracle can come up with in the arena:
\* the path analyze takes, the raw signal it returns, the learned bias.
Hold == [action |-> "hold", side |-> "yes", confidence |-> 0]

ArenaChoices ==
    { [path |-> "insufficient", raw |-> Hold, bias |-> 100],
      [path |-> "hold", raw |-> Hold, bias |-> 100],
      [path |-> "buy",
       raw |-> [action |-> "buy", side |-> "yes", confidence |-> 100],
       bias |-> 100] }


\* arena.py:303-307  the evolution branch of the loop, on the given pnls
Evolve(pnl) ==
    LET N == Len(bots)
        K == SURVIVORS_PER_CYCLE
    IN \E parent \in [1..(N - K) -> 1..K], suffix \in [1..(N - K) -> 1..MaxSuffix] :
         LET evo == run_evolution(bots, cycle_number + 1, pnl, parent, suffix)
         IN  /\ cycle_number' = cycle_number + 1
             /\ bots' = evo.new_bots
             /\ bot_configs' = evo.configs
             /\ history' = Append(history, evo.entry)
             /\ traded' = {}
             /\ execCalls' = EmptyBag
             /\ evt' = OpEvt("run_evolution")

EvolutionDue ==
    /\ pc = "top"
    /\ cycle_number < MaxCycles
    /\ Evolve([i \in DOMAIN bots |-> total_pnl(bots[i].name)])
    /\ pc' = "resolve"
    /\ UNCHANGED <<ledger, outcomes, scan, day, mode, dIn, dOut, pnlIn>>

EvolutionNotDue ==
    /\ pc = "top"
    /\ pc' = "resolve"
    /\ UNCHANGED <<bots, traded, ledger, outcomes, cycle_number, scan, day,
                   mode, bot_configs, history, evt, execCalls, dIn, dOut, pnlIn>>

\* arena.py:237-246  the pass acts on a pending trade whose market is in the
\* resolved listing and carries an outcome there
Resolvable(t, listing) ==
    /\ t.outcome = "pending"
    /\ t.market_id \in listing
    /\ outcomes[t.market_id] \in Sides

\* arena.py:237-268  one row of the pass: db.resolve_trade, then the
\* callback learning.record_outcome
resolve_trade_unguarded(t, listing) ==
    IF t.market_id \in listing /\ outcomes[t.market_id] \in Sides
    THEN LET won == (t.side = outcomes[t.market_id])
         IN  [t EXCEPT !.outcome = IF won THEN "win" ELSE "loss",
                       !.pnl = IF won THEN t.amount ELSE 0 - t.amount,
                       !.recorded = @ + 1]
    ELSE t

resolve_trade_yes_wins(t, listing) ==
    IF Resolvable(t, listing)
    THEN LET won == (t.side = "yes")
         IN  [t EXCEPT !.outcome = IF won THEN "win" ELSE "loss",
                       !.pnl = IF won THEN t.amount ELSE 0 - t.amount,
                       !.recorded = @ + 1]
    ELSE t

resolve_trade(t, listing) ==
    IF Resolvable(t, listing)
    THEN LET won == (t.side = outcomes[t.market_id])
         IN  [t EXCEPT !.outcome = IF won THEN "win" ELSE "loss",
                       !.pnl = IF won THEN t.amount ELSE 0 - t.amount,
                       !.recorded = @ + 1]
    ELSE t

\* Where a pass can break off: nowhere, or at a row it acts on, either in
\* db.resolve_trade (arena.py:261, the row is not written) or after it, in
\* the feature extraction or the callback (arena.py:264-266, the row is
\* written and the callback is not made).  The except of arena.py:274 ends
\* the pass there.
NoFailure == [at |-> 0, stage |-> "none"]

Failures(listing) ==
    {NoFailure}
    \cup {[at |-> k, stage |-> st] :
            k \in {j \in DOMAIN ledger : Resolvable(ledger[j], listing)},
            st \in {"update", "callback"}}

\* arena.py:195-276  listing: the markets of the resolved listing (empty
\* also when the request fails).
resolve_trades(listing, fail) ==
    [k \in DOMAIN ledger |->
        CASE fail.at = 0 \/ k < fail.at ->
               resolve_trade(ledger[k], listing)
          [] k = fail.at /\ fail.stage = "callback" ->
               [resolve_trade(ledger[k], listing) EXCEPT
                   !.recorded = ledger[k].recorded]
          [] OTHER -> ledger[k]]

\* The markets discovery has listed so far.
Listed == {m \in Markets : outcomes[m] # "future"}

ResolveTrades ==
    /\ pc = "resolve"
    /\ \E listing \in SUBSET Listed :
          \E fail \in Failures(listing) :
             ledger' = resolve_trades(listing, fail)
    /\ pc' = "discover"
    /\ UNCHANGED <<bots, traded, outcomes, cycle_number, scan, day, mode,
                   bot_configs, history, evt, execCalls, dIn, dOut, pnlIn>>

\* arena.py:312-328  the active strict 5-minute markets in listing order,
\* or none when the listing request fails; then the price signals of this
\* iteration, shared by every pair of the scan: bad_prices when the
\* second-to-last price is 0, on which make_decision divides by zero
\* (base_bot.py:75-76).
RECURSIVE ActiveFrom(_)
ActiveFrom(m) ==
    IF m > NumMarkets THEN <<>>
    ELSE (IF outcomes[m] = "none" THEN <<m>> ELSE <<>>) \o ActiveFrom(m + 1)

Discover ==
    /\ pc = "discover"
    /\ \E five_min_markets \in {<<>>, ActiveFrom(1)}, bad_prices \in BOOLEAN :
          IF five_min_markets = <<>>
          THEN pc' = "sleep" /\ scan' = NoScan
          ELSE pc' = "scan"
               /\ scan' = [markets |-> five_min_markets, mi |-> 1, bi |-> 1,
                           bad_prices |-> bad_prices]
    /\ UNCHANGED <<bots, traded, ledger, outcomes, cycle_number, day, mode,
                   bot_configs, history, evt, execCalls, dIn, dOut, pnlIn>>

\* arena.py:331-359  moving on to the next bot, the next market, or the sleep
Advance ==
    IF scan.bi < Len(bots)
    THEN pc' = "scan" /\ scan' = [scan EXCEPT !.bi = scan.bi + 1]
    ELSE IF scan.mi < Len(scan.markets)
         THEN pc' = "scan" /\ scan' = [scan EXCEPT !.mi = scan.mi + 1, !.bi = 1]
         ELSE pc' = "sleep" /\ scan' = NoScan

\* arena.py:338-340
SkipPair ==
    /\ pc = "scan"
    /\ <<bots[scan.bi].name, scan.markets[scan.mi]>> \in traded
    /\ Advance
    /\ UNCHANGED <<bots, traded, ledger, outcomes, cycle_number, day, mode,
                   bot_configs, history, evt, execCalls, dIn, dOut, pnlIn>>

\* The effect of one execute call on the bot and the ledger.
ApplyExecute(i, out, m, max_rows) ==
    /\ Len(ledger) + Len(out.rows) <= max_rows
    /\ bots' = [bots EXCEPT ![i].paused = out.paused]
    /\ ledger' = ledger \o out.rows
    /\ evt' = [op |-> "execute", bot |-> bots[i].name,
               success |-> out.success, reason |-> out.reason,
               raised |-> out.raised, rows |-> Len(out.rows), mode |-> m,
               listing |-> {}]

\* arena.py:342-354  what the main loop records for the pair
mark_traded_on_success_only(key, raised, success) ==
    IF success THEN traded \cup {key} ELSE traded

mark_traded_unless_raised(key, raised, success) ==
    IF raised THEN traded ELSE traded \cup {key}

mark_traded_never(key, raised, success) == traded

mark_traded(key, raised, success) == traded \cup {key}

\* arena.py:337-354  with room for max_rows trades in the ledger
ProcessPairUpTo(max_rows) ==
    /\ pc = "scan"
    /\ LET i == scan.bi
           market_id == scan.markets[scan.mi]
           key == <<bots[i].name, market_id>>
       IN  /\ key \notin traded
           /\ \E c \in ArenaChoices :
                 IF AnalyzeRaises(bots[i], c.path) \/ scan.bad_prices
                 THEN \* make_decision raised: execute is not reached
                      /\ traded' = mark_traded(key, TRUE, FALSE)
                      /\ evt' = [OpEvt("make_decision") EXCEPT
                                    !.bot = bots[i].name,
                                    !.raised = TRUE, !.reason = "raised"]
                      /\ UNCHANGED <<bots, ledger, execCalls>>
                 ELSE \E env \in EnvsFor(bots[i]) :
                        LET signal == SignalOf(make_decision(c.raw, c.bias, mode))
                            out == execute(bots[i], signal, market_id, env)
                        IN  /\ ApplyExecute(i, out, execute_mode(bots[i], env),
                                            max_rows)
                            /\ execCalls' = execCalls (+) SetToBag({key})
                            /\ traded' = mark_traded(key, out.raised,
                                                      out.success)
    /\ Advance
    /\ UNCHANGED <<outcomes, cycle_number, day, mode, bot_configs, history,
                   dIn, dOut, pnlIn>>

\* arena.py:337-354
ProcessPair == ProcessPairUpTo(MaxTrades)

\* arena.py:316, 323, 359  time.sleep at the end of an iteration
Sleep ==
    /\ pc = "sleep"
    /\ pc' = "top"
    /\ evt' = OpEvt("sleep")
    /\ UNCHANGED <<bots, traded, ledger, outcomes, cycle_number, scan, day,
                   mode, bot_configs, history, execCalls, dIn, dOut, pnlIn>>

\* The next 5-minute market opens.
MarketOpens ==
    /\ pc = "top"
    /\ \E m \in Markets :
          /\ outcomes[m] = "future"
          /\ \A n \in Markets : n < m => outcomes[n] # "future"
          /\ outcomes' = [outcomes EXCEPT ![m] = "none"]
    /\ UNCHANGED <<bots, traded, ledger, cycle_number, pc, scan, day, mode,
                   bot_configs, history, evt, execCalls, dIn, dOut, pnlIn>>

\* The settlement side resolves an active market.
MarketResolves ==
    /\ pc = "top"
    /\ \E m \in Markets, o \in Sides :
          /\ outcomes[m] = "none"
          /\ outcomes' = [outcomes EXCEPT ![m] = o]
    /\ UNCHANGED <<bots, traded, ledger, cycle_number, pc, scan, day, mode,
                   bot_configs, history, evt, execCalls, dIn, dOut, pnlIn>>

\* Midnight passes.
NewDay ==
    /\ pc = "top"
    /\ day < MaxDay
    /\ day' = day + 1
    /\ UNCHANGED <<bots, traded, ledger, outcomes, cycle_number, pc, scan, mode,
                   bot_configs, history, evt, execCalls, dIn, dOut, pnlIn>>

Next ==
    \/ EvolutionDue
    \/ EvolutionNotDue
    \/ ResolveTrades
    \/ Discover
    \/ SkipPair
    \/ ProcessPair
    \/ Sleep
    \/ MarketOpens
    \/ MarketResolves
    \/ NewDay

Spec == Init /\ [][Next]_vars

(***************************************************************************)
(* make_decision on its own: every input of the grid, every sizing variant *)
(***************************************************************************)
InitDecision ==
    /\ ArenaInit
    /\ mode = "paper"
    /\ dIn \in DecisionInputs
    /\ dOut = NoDecision
    /\ pnlIn = <<>>

\* bot.make_decision(market, signals) of the variant's class
Decide ==
    /\ dOut = NoDecision
    /\ dOut' = decide(dIn.variant, dIn.raw, dIn.bias, dIn.mode)
    /\ UNCHANGED <<arena_vars, dIn, pnlIn>>

NextDecision == Decide

SpecDecision == InitDecision /\ [][NextDecision]_vars

Decided == dOut # NoDecision

MaxPosMicro == get_max_position(dIn.mode) * Micro

ConfidenceInRange == 100 <= dOut.confidence /\ dOut.confidence <= 950

\* The amount lies between lo% and hi% of the mode's max position.
AmountWithin(lo, hi) ==
    /\ lo * MaxPosMicro <= 100 * dOut.suggested_amount
    /\ 100 * dOut.suggested_amount <= hi * MaxPosMicro

\* No call of the same variant in the same mode returns a lower-or-equal
\* confidence together with a larger amount.
AmountMonotone ==
    \A raw2 \in RawSignals, bias2 \in Grid :
        LET d2 == decide(dIn.variant, raw2, bias2, dIn.mode)
        IN  d2.confidence <= dOut.confidence
                => d2.suggested_amount <= dOut.suggested_amount

\* C7 as stated: every variant's decision has 0.1 <= confidence <= 0.95 and
\* an amount between 2% and 10% of the max position, monotone in the
\* confidence.
C7_AmountTwoToTenPercent ==
    Decided => ConfidenceInRange /\ AmountWithin(2, 10) /\ AmountMonotone

\* C7 amended: every variant's decision has 0.1 <= confidence <= 0.95 and
\* an amount monotone in the confidence; the amount is between 2% and 10%
\* of the max position for the base and take-profit variants and between
\* 3% and 15% (1.5 times the base amount) for the stop-loss variant.
C7_AmountBoundsPerVariant ==
    Decided =>
        /\ ConfidenceInRange
        /\ AmountMonotone
        /\ IF dIn.variant = "stop_loss"
           THEN AmountWithin(3, 15) ELSE AmountWithin(2, 10)

\* A stop-loss decision whose amount is above 10% of the max position.
C7_Witness ==
    /\ Decided
    /\ dIn.variant = "stop_loss"
    /\ 100 * dOut.suggested_amount > 10 * MaxPosMicro

\* The blend as the decision rule states it, in thousandths.
BlendReference ==
    IF dIn.raw.action # "hold"
    THEN 6 * (IF dIn.raw.side = "yes" THEN dIn.raw.confidence ELSE 0)
         + 4 * dIn.bias + 3 * (100 - dIn.raw.confidence)
    ELSE 10 * dIn.bias

\* C8: combined_yes = 0.6*strategy_yes*conf + 0.4*bias + 0.3*(1 - conf) for
\* a non-hold signal and = bias for a hold; the side is yes exactly when
\* combined_yes > 0.5 (so exactly 0.5 gives no); the confidence is
\* |combined_yes - 0.5| * 2 clamped into [0.1, 0.95].
C8_BlendFormula ==
    Decided =>
        /\ dOut.side = "yes" <=> BlendReference > 500
        /\ dOut.side = "no" <=> BlendReference <= 500
        /\ LET distance == 2 * Abs(BlendReference - 500)
           IN  dOut.confidence =
                  (IF distance < 100 THEN 100
                   ELSE IF distance > 950 THEN 950 ELSE distance)

\* A non-hold signal whose blend is exactly 0.5: side no, confidence 0.1.
C8_Witness ==
    /\ Decided
    /\ dIn.raw.action = "buy"
    /\ BlendReference = 500
    /\ dOut.side = "no"
    /\ dOut.confidence = 100

\* C9: make_decision never returns hold: the action is buy and the side is
\* yes or no, whatever the strategy's own signal was.
C9_NeverHold ==
    Decided => dOut.action = "buy" /\ dOut.side \in Sides

\* The strategy said hold and the decision is a buy.
C9_Witness ==
    /\ Decided
    /\ dIn.raw.action = "hold"
    /\ dOut.action = "buy"

(***************************************************************************)
(* run_evolution on its own: every pnl vector over PnlValues               *)
(***************************************************************************)
PnlValues == {-30, -10, 5, 50}

\* The epoch that ends: which bots the risk gate has paused, and whether
\* every bot has been through market 1.
EpochEnds ==
    [paused : SUBSET DOMAIN create_default_bots,
     traded : {{}, {<<create_default_bots[i].name, 1>> :
                       i \in DOMAIN create_default_bots}}]

InitEvo ==
    /\ dIn \in EpochEnds
    /\ bots = [i \in DOMAIN create_default_bots |->
                  [create_default_bots[i] EXCEPT !.paused = (i \in dIn.paused)]]
    /\ traded = dIn.traded
    /\ ledger = <<>>
    /\ outcomes = [m \in Markets |-> "future"]
    /\ cycle_number = 0
    /\ pc = "top"
    /\ scan = NoScan
    /\ day = 0
    /\ mode = "paper"
    /\ bot_configs = ConfigRows(create_default_bots)
    /\ history = <<>>
    /\ evt = NoEvt
    /\ execCalls = EmptyBag
    /\ dOut = NoDecision
    /\ pnlIn \in [DOMAIN create_default_bots -> PnlValues]

\* bots = run_evolution(bots, cycle_number) with perf["total_pnl"] of the
\* bot in population slot i being pnlIn[i]
EvolveOnPnl ==
    /\ cycle_number < MaxCycles
    /\ Evolve(pnlIn)
    /\ UNCHANGED <<ledger, outcomes, pc, scan, day, mode, dIn, dOut, pnlIn>>

NextEvo == EvolveOnPnl

SpecEvo == InitEvo /\ [][NextEvo]_vars

Evolved == history # <<>>

LastCycle == history[Len(history)]

PnlIn(entry, name) ==
    LET i == CHOOSE j \in DOMAIN entry.rankings : entry.rankings[j].name = name
    IN  entry.rankings[i].pnl

Ranked(entry) == {entry.rankings[i].name : i \in DOMAIN entry.rankings}

\* C4: in every evolution cycle exactly K = SURVIVORS_PER_CYCLE bots
\* survive, no replaced bot has a higher trailing pnl than a survivor, all
\* other bots are replaced and leave the population; on pnls
\* [+50, -10, +5, -30] the +50 and +5 bots survive and the -10 and -30
\* bots are replaced.
C4_TopKSurvive ==
    \A c \in DOMAIN history :
        LET entry == history[c]
        IN  /\ Cardinality(entry.survivors) = SURVIVORS_PER_CYCLE
            /\ entry.survivors \subseteq Ranked(entry)
            /\ entry.replaced = Ranked(entry) \ entry.survivors
            /\ \A s \in entry.survivors, r \in entry.replaced :
                   PnlIn(entry, s) >= PnlIn(entry, r)
            /\ c = Len(history) =>
                   /\ entry.survivors \subseteq Names(bots)
                   /\ entry.replaced \cap Names(bots) = {}
            /\ (c = 1 /\ pnlIn = <<50, -10, 5, -30>>) =>
                   /\ entry.survivors = {DefaultName("momentum"),
                                         DefaultName("sentiment")}
                   /\ entry.replaced = {DefaultName("mean_reversion"),
                                        DefaultName("hybrid")}

\* The first cycle has run on the pnls [+50, -10, +5, -30].
C4_Witness ==
    /\ Evolved
    /\ pnlIn = <<50, -10, 5, -30>>
    /\ DefaultName("sentiment") \in history[1].survivors
    /\ DefaultName("mean_reversion") \in history[1].replaced

Children == {bots[i] : i \in {j \in DOMAIN bots : bots[j].name \in LastCycle.new_bots}}

ConfigsOf(name) == {k \in DOMAIN bot_configs : bot_configs[k].bot_name = name}

\* C5: after an evolution cycle every replaced bot is retired and out of
\* the population, and for each there is exactly one child of its strategy
\* type; every child has generation = the cycle number, lineage
\* <<parent, child>> with the parent a survivor of that cycle, and exactly
\* one persisted bot config.
C5_OneChildPerReplaced ==
    Evolved =>
        /\ Cardinality(LastCycle.new_bots) = Cardinality(LastCycle.replaced)
        /\ \A r \in LastCycle.replaced :
              /\ r \notin Names(bots)
              /\ ConfigsOf(r) # {}
              /\ \A k \in ConfigsOf(r) : ~bot_configs[k].active
              /\ Cardinality({c \in Children : c.name[1] = r[1]}) = 1
        /\ \A c \in Children :
              /\ c.generation = LastCycle.cycle_number
              /\ Len(c.lineage) = 2
              /\ c.lineage[1] \in LastCycle.survivors
              /\ c.lineage[2] = c.name
              /\ Cardinality(ConfigsOf(c.name)) = 1
              /\ \A k \in ConfigsOf(c.name) :
                    /\ bot_configs[k].active
                    /\ bot_configs[k].generation = c.generation
                    /\ bot_configs[k].lineage = c.lineage

\* A cycle has replaced two bots, and the two children have different
\* parents.
C5_Witness ==
    /\ Evolved
    /\ Cardinality(Children) = 2
    /\ \E c1, c2 \in Children : c1.lineage[1] # c2.lineage[1]

\* C19: when an evolution cycle has completed, every bot of the population
\* (every survivor and every new child) is unpaused and the dedup set is
\* empty, so that no pair of the previous epoch is skipped.
C19_EpochReset ==
    Evolved =>
        /\ traded = {}
        /\ Names(bots) = LastCycle.survivors \cup LastCycle.new_bots
        /\ \A i \in DOMAIN bots : ~bots[i].paused

\* A bot that was paused and had traded market 1 survived: it is unpaused
\* and its pair on market 1 is open again.
C19_Witness ==
    /\ Evolved
    /\ \E i \in dIn.paused :
          /\ create_default_bots[i].name \in LastCycle.survivors
          /\ <<create_default_bots[i].name, 1>> \in dIn.traded
          /\ \E j \in DOMAIN bots :
                /\ bots[j].name = create_default_bots[i].name
                /\ ~bots[j].paused
                /\ <<bots[j].name, 1>> \notin traded

\* C6: every bot created by evolution holds every parameter key that the
\* analyze of its strategy class reads.
C6_ChildParamsCompatible ==
    \A i \in DOMAIN bots :
        bots[i].generation > 0 =>
            \A path \in Paths : ~AnalyzeRaises(bots[i], path)

(***************************************************************************)
(* execute on its own: direct calls on a BaseBot and a BtcMakerBot that    *)
(* share the ledger, with the signals make_decision and                    *)
(* BtcMakerBot.analyze produce                                             *)
(***************************************************************************)
MakerName == <<"btc_maker", 0, 0>>   \* "btc-maker-v1"

ExecBots ==
    << NewBot(DefaultName("momentum"), "momentum", DEFAULT_PARAMS("momentum"),
              0, <<DefaultName("momentum")>>),
       NewBot(MakerName, "btc_maker", DEFAULT_PARAMS("btc_maker"), 0,
              <<MakerName>>) >>

\* bot_btc_maker.py:110-139  the buy signals of BtcMakerBot.analyze: the
\* lean, the side that goes with it, position_size_pct (0.05) of the max
\* position, and both quotes.
MakerSignals ==
    { [side |-> IF lean \in {"yes", "both"} THEN "yes" ELSE "no",
       confidence |-> 600,
       has_amount |-> TRUE,
       suggested_amount |-> get_max_position(mode) * 50000,
       maker_side |-> lean, maker_quotes |-> TRUE] :
      lean \in {"yes", "no", "both"} }

\* The signals a caller hands to execute of bot b.
SignalsFor(b) ==
    {SignalOf(make_decision(Hold, 100, mode))}
    \cup (IF b.strategy_type = "btc_maker" THEN MakerSignals ELSE {})

InitExec ==
    /\ bots = ExecBots
    /\ traded = {}
    /\ ledger = <<>>
    /\ outcomes = [m \in Markets |-> IF m = 1 THEN "none" ELSE "future"]
    /\ cycle_number = 0
    /\ pc = "top"
    /\ scan = NoScan
    /\ day = 0
    /\ mode \in Modes
    /\ bot_configs = ConfigRows(ExecBots)
    /\ history = <<>>
    /\ evt = NoEvt
    /\ execCalls = EmptyBag
    /\ dIn = <<>>
    /\ dOut = NoDecision
    /\ pnlIn = <<>>

\* bots[i].execute(signal, market)
ExecuteStep(i, market_id, signal, env) ==
    /\ LET out == execute(bots[i], signal, market_id, env)
       IN  ApplyExecute(i, out, execute_mode(bots[i], env), MaxRows)
    /\ UNCHANGED <<traded, outcomes, cycle_number, pc, scan, day, mode,
                   bot_configs, history, execCalls, dIn, dOut, pnlIn>>

\* The calls in which the risk queries answer.
ExecuteOn(i) ==
    \E market_id \in Listed, signal \in SignalsFor(bots[i]),
       env \in {e \in EnvsFor(bots[i]) : ~e.db_error} :
        ExecuteStep(i, market_id, signal, env)

ExecuteCall == \E i \in DOMAIN bots : ExecuteOn(i)

\* arena.resolve_trades() against what has resolved so far
ResolveCall ==
    /\ \E listing \in SUBSET Listed :
          \E fail \in Failures(listing) :
             /\ ledger' = resolve_trades(listing, fail)
             /\ evt' = [OpEvt("resolve_trades") EXCEPT !.listing = listing]
    /\ UNCHANGED <<bots, traded, outcomes, cycle_number, pc, scan, day, mode,
                   bot_configs, history, execCalls, dIn, dOut, pnlIn>>

\* arena.py:100-103  run_evolution keeps bot i and calls its reset_daily
ResetDaily(i) ==
    /\ bots[i].paused
    /\ bots' = [bots EXCEPT ![i] = reset_daily(@)]
    /\ evt' = [OpEvt("reset_daily") EXCEPT !.bot = bots[i].name]
    /\ UNCHANGED <<traded, ledger, outcomes, cycle_number, pc, scan, day,
                   mode, bot_configs, history, execCalls, dIn, dOut, pnlIn>>

ResetCall == \E i \in DOMAIN bots : ResetDaily(i)

NextExec ==
    \/ ExecuteCall
    \/ ResolveCall
    \/ ResetCall
    \/ MarketResolves
    \/ NewDay

SpecExec == InitExec /\ [][NextExec]_vars

\* The step is an execute call on bot i: of the steps of SpecExec only
\* ExecuteCall leaves evt an execute record and the day and the outcomes
\* as they were.
ExecutedOn(i) ==
    /\ evt'.op = "execute"
    /\ evt'.bot = bots[i].name
    /\ day' = day
    /\ outcomes' = outcomes

Rejected == ledger' = ledger /\ ~evt'.success

\* C2: an execute call on a bot whose realized loss today (in the mode the
\* call trades in) is at or above the per-bot cap leaves the bot paused and
\* is rejected with no trade persisted; an execute call on a paused bot is
\* rejected with no trade persisted and leaves it paused; and the only
\* step that takes a bot from paused to unpaused is the reset_daily that
\* run_evolution calls.
C2_PauseLatch ==
    [][\A i \in DOMAIN bots :
          /\ (ExecutedOn(i)
                /\ get_bot_daily_loss(bots[i].name, evt'.mode)
                       >= MAX_DAILY_LOSS_PER_BOT)
                => (bots'[i].paused /\ Rejected)
          /\ (ExecutedOn(i) /\ bots[i].paused)
                => (bots'[i].paused /\ Rejected)
          /\ (bots[i].paused /\ ~bots'[i].paused) => ResetDaily(i)]_vars

\* A paused bot has just had an execute rejected as bot_paused although
\* its loss today is back below the cap.
C2_Witness ==
    /\ evt.op = "execute"
    /\ evt.reason = "bot_paused"
    /\ \E i \in DOMAIN bots :
          /\ bots[i].name = evt.bot
          /\ bots[i].paused
          /\ get_bot_daily_loss(bots[i].name, evt.mode) < MAX_DAILY_LOSS_PER_BOT
          /\ \E k \in DOMAIN ledger :
                /\ ledger[k].bot_name = evt.bot
                /\ ledger[k].outcome = "loss"
                /\ ledger[k].day < day

\* C3: an execute call made while the arena's realized loss today (in the
\* mode the call trades in) is at or above the aggregate cap is rejected
\* with no trade persisted, and it leaves a bot unpaused that was unpaused
\* and whose own loss today is below the per-bot cap.
C3_ArenaCapRejectsWithoutPause ==
    [][\A i \in DOMAIN bots :
          (ExecutedOn(i)
             /\ get_total_daily_loss(evt'.mode) >= MAX_DAILY_LOSS_TOTAL)
          => /\ Rejected
             /\ (~bots[i].paused
                   /\ get_bot_daily_loss(bots[i].name, evt'.mode)
                          < MAX_DAILY_LOSS_PER_BOT)
                  => ~bots'[i].paused]_vars

\* The BaseBot has just been rejected for the arena cap: its own loss is
\* below the per-bot cap and it is not paused.
C3_Witness ==
    /\ evt.op = "execute"
    /\ evt.reason = "arena_loss_limit"
    /\ evt.bot = DefaultName("momentum")
    /\ get_total_daily_loss(evt.mode) >= MAX_DAILY_LOSS_TOTAL
    /\ \E i \in DOMAIN bots :
          /\ bots[i].name = evt.bot
          /\ ~bots[i].paused
          /\ get_bot_daily_loss(bots[i].name, evt.mode) < MAX_DAILY_LOSS_PER_BOT

\* C10: a single execute call never persists more than one trade for its
\* market, for every bot class and in both modes.
C10_OneTradePerExecute ==
    evt.op = "execute" => evt.rows <= 1

(***************************************************************************)
(* The dedup set of the main loop                                          *)
(***************************************************************************)
\* C1: within one dedup epoch the main loop calls execute at most once for
\* each (bot name, market id) pair, whatever the first call returned.
C1_ExecuteOncePerEpoch ==
    \A key \in BagToSet(execCalls) : CopiesIn(key, execCalls) <= 1

\* The scan stands at a pair whose one execute call of this epoch persisted
\* no trade, in an iteration after that call: the pair is skipped.
C1_Witness ==
    /\ pc = "scan"
    /\ LET key == <<bots[scan.bi].name, scan.markets[scan.mi]>>
       IN  /\ key \in traded
           /\ CopiesIn(key, execCalls) = 1
           /\ \A k \in DOMAIN ledger :
                 ~(ledger[k].bot_name = key[1] /\ ledger[k].market_id = key[2])

\* The pair the scan stands at.
ScanKey == <<bots[scan.bi].name, scan.markets[scan.mi]>>

\* The scan goes on to the pair after the one it stands at, or to the sleep
\* after the last pair.
NextPairReached ==
    IF scan.bi < Len(bots)
    THEN pc' = "scan" /\ scan' = [scan EXCEPT !.bi = scan.bi + 1]
    ELSE IF scan.mi < Len(scan.markets)
         THEN pc' = "scan"
              /\ scan' = [scan EXCEPT !.mi = scan.mi + 1, !.bi = 1]
         ELSE pc' = "sleep"

\* C17: when make_decision or execute raises for the pair the scan stands at,
\* the pair enters the dedup set, no trade is written, and the scan goes on
\* to the next bot of the market, the next market, or the end of the scan; a
\* pair stays in the dedup set until the next evolution; and a scan ends only
\* with every pair of it in the dedup set.
C17_RaiseIsolated ==
    [][/\ (pc = "scan" /\ ScanKey \notin traded /\ evt'.raised)
             => /\ ScanKey \in traded'
                /\ ledger' = ledger
                /\ bots' = bots
                /\ NextPairReached
       /\ \A key \in traded :
             key \in traded' \/ cycle_number' # cycle_number
       /\ (pc = "scan" /\ pc' # "scan")
             => \A i \in DOMAIN bots, k \in DOMAIN scan.markets :
                   <<bots[i].name, scan.markets[k]>> \in traded'
      ]_vars

\* execute raised for the previous bot of the market: its pair is in the
\* dedup set and the scan stands at the next bot, whose pair is still open.
C17_Witness ==
    /\ pc = "scan"
    /\ scan.bi > 1
    /\ evt.op = "execute"
    /\ evt.raised
    /\ evt.bot = bots[scan.bi - 1].name
    /\ <<evt.bot, scan.markets[scan.mi]>> \in traded
    /\ ScanKey \notin traded

(***************************************************************************)
(* Resolution of trades                                                    *)
(***************************************************************************)
Resolved(t) == t.outcome # "pending"

\* C11: the ledger only grows; a row changes only in a resolve_trades pass,
\* only while its outcome is still unset, only when its market is in the
\* resolved listing with an outcome, and only in its outcome, pnl and
\* callback count; so a resolved row never changes again and a row whose
\* market is absent from the listing or has no outcome stays as it is.
C11_ResolvedOnce ==
    [][/\ Len(ledger') >= Len(ledger)
       /\ \A k \in DOMAIN ledger :
             ledger'[k] # ledger[k] =>
                /\ ~Resolved(ledger[k])
                /\ ledger[k].pnl = 0
                /\ evt'.op = "resolve_trades"
                /\ ledger[k].market_id \in evt'.listing
                /\ outcomes[ledger[k].market_id] \in Sides
                /\ ledger'[k].outcome \in {"win", "loss"}
                /\ ledger'[k] = [ledger[k] EXCEPT
                                    !.outcome = ledger'[k].outcome,
                                    !.pnl = ledger'[k].pnl,
                                    !.recorded = ledger'[k].recorded]]_vars

\* A pass whose listing was empty has just run: a row resolved by an
\* earlier pass is there, and a pending row of a market that has an
\* outcome is still pending.
C11_Witness ==
    /\ evt.op = "resolve_trades"
    /\ evt.listing = {}
    /\ \E k \in DOMAIN ledger : Resolved(ledger[k]) /\ ledger[k].pnl # 0
    /\ \E k \in DOMAIN ledger :
          ~Resolved(ledger[k]) /\ outcomes[ledger[k].market_id] \in Sides

\* C12: a resolved trade is a win exactly when its side is the market's
\* outcome and a loss otherwise, its pnl is +amount on a win and -amount
\* on a loss, and a yes trade and a no trade resolved on the same market
\* have opposite outcomes.
C12_WinIffSideMatches ==
    \A k \in DOMAIN ledger :
        Resolved(ledger[k]) =>
            LET t == ledger[k]
            IN  /\ outcomes[t.market_id] \in Sides
                /\ t.outcome = "win" <=> t.side = outcomes[t.market_id]
                /\ t.outcome = "loss" <=> t.side # outcomes[t.market_id]
                /\ t.pnl = (IF t.outcome = "win" THEN t.amount
                            ELSE 0 - t.amount)
                /\ \A j \in DOMAIN ledger :
                      (Resolved(ledger[j])
                         /\ ledger[j].market_id = t.market_id
                         /\ ledger[j].side # t.side)
                      => ledger[j].outcome # t.outcome

\* A yes trade and a no trade on the same market, both resolved: the no
\* trade won and the yes trade lost.
C12_Witness ==
    \E j, k \in DOMAIN ledger :
        /\ ledger[j].market_id = ledger[k].market_id
        /\ ledger[j].side = "yes" /\ ledger[j].outcome = "loss"
        /\ ledger[j].pnl = 0 - ledger[j].amount
        /\ ledger[k].side = "no" /\ ledger[k].outcome = "win"
        /\ ledger[k].pnl = ledger[k].amount

\* C13: every resolved trade has had exactly one record_outcome callback.
C13_ResolvedHasCallback ==
    \A k \in DOMAIN ledger :
        /\ Resolved(ledger[k]) => ledger[k].recorded = 1
        /\ ~Resolved(ledger[k]) => ledger[k].recorded = 0


(***************************************************************************)
(* One execute call on its own: every signal, every answer of the          *)
(* collaborators, every standing of the bot against the loss caps          *)
(***************************************************************************)
\* Whole units of the largest suggested_amount a caller hands over.
MaxSuggested == 3

\* The learned biases the routed decisions are made with.
RouteBiases == {0, 100}

\* A signal whose suggested_amount is missing or is units whole units.
BareSignal(side, has_amount, units) ==
    [side |-> side, confidence |-> 600, has_amount |-> has_amount,
     suggested_amount |-> units * Micro,
     maker_side |-> "absent", maker_quotes |-> FALSE]

\* The signals execute of bot b is called with: the decisions of the three
\* sizing variants, a signal without suggested_amount, one above every max
\* position, and for the maker the signals of its analyze.
RouteSignals(b) ==
    {SignalOf(decide(v, Hold, bias, mode)) : v \in Variants, bias \in RouteBiases}
    \cup {BareSignal(side, FALSE, 0) : side \in Sides}
    \cup {BareSignal(side, TRUE, MaxSuggested) : side \in Sides}
    \cup (IF b.strategy_type = "btc_maker" THEN MakerSignals ELSE {})

\* A bot is paused only by a loss of its own that reached the cap.
RouteInputs ==
    {r \in [bot : DOMAIN ExecBots, market : Markets \ {1},
            signal : UNION {RouteSignals(ExecBots[i]) : i \in DOMAIN ExecBots},
            env : Envs, paused : BOOLEAN,
            loss_by : {"none", "self", "other"}] :
        /\ r.signal \in RouteSignals(ExecBots[r.bot])
        /\ r.env \in EnvsFor(ExecBots[r.bot])
        /\ r.paused => r.loss_by = "self"}

\* The ledger before the call: empty, or one trade of market 1 lost today in
\* the mode of the call, at the full max position.
RouteLedger(r) ==
    LET m == execute_mode(ExecBots[r.bot], r.env)
        loser == IF r.loss_by = "self" THEN r.bot
                 ELSE CHOOSE i \in DOMAIN ExecBots : i # r.bot
    IN  IF r.loss_by = "none" THEN <<>>
        ELSE << resolve_trade(TradeRow(ExecBots[loser].name, 1, "yes",
                                       get_max_position(m) * Micro, m), {1}) >>

InitRoute ==
    /\ mode \in Modes
    /\ day = 0
    /\ cycle_number = 0
    /\ dIn \in RouteInputs
    /\ outcomes = [m \in Markets |->
                      IF m = 1 /\ dIn.loss_by # "none" THEN "no" ELSE "none"]
    /\ bots = [i \in DOMAIN ExecBots |->
                  [ExecBots[i] EXCEPT !.paused = (i = dIn.bot /\ dIn.paused)]]
    /\ ledger = RouteLedger(dIn)
    /\ traded = {}
    /\ pc = "top"
    /\ scan = NoScan
    /\ bot_configs = ConfigRows(ExecBots)
    /\ history = <<>>
    /\ evt = NoEvt
    /\ execCalls = EmptyBag
    /\ dOut = NoDecision
    /\ pnlIn = <<>>

\* bots[dIn.bot].execute(dIn.signal, market)
RouteCall ==
    /\ evt.op = "none"
    /\ LET i == dIn.bot
           out == execute(bots[i], dIn.signal, dIn.market, dIn.env)
       IN  ApplyExecute(i, out, execute_mode(bots[i], dIn.env), MaxRows + 1)
    /\ UNCHANGED <<traded, outcomes, cycle_number, pc, scan, day, mode,
                   bot_configs, history, execCalls, dIn, dOut, pnlIn>>

NextRoute == RouteCall

SpecRoute == InitRoute /\ [][NextRoute]_vars

\* The call of SpecRoute has returned or raised.
Routed == evt.op = "execute"

\* C14: the amount of every trade in the ledger is at most the max position
\* of the trade's mode, whatever suggested_amount the signal carried.
C14_AmountWithinMaxPosition ==
    \A k \in DOMAIN ledger :
        ledger[k].amount <= get_max_position(ledger[k].mode) * Micro

\* A signal above the max position was traded at the max position.
C14_Witness ==
    /\ Routed
    /\ evt.rows >= 1
    /\ dIn.signal.has_amount
    /\ dIn.signal.suggested_amount > get_max_position(evt.mode) * Micro
    /\ ledger[Len(ledger)].amount = get_max_position(evt.mode) * Micro


\* The ledger before the call of SpecRoute, and the rows the call appended.
LedgerBefore == RouteLedger(dIn)

Appended == SubSeq(ledger, Len(LedgerBefore) + 1, Len(ledger))

\* The call was made by the maker in live mode: it posts limit orders.
MakerLive ==
    ExecBots[dIn.bot].strategy_type = "btc_maker" /\ evt.mode = "live"

\* The instrument id of the side of the signal is present.
TokenPresent ==
    IF dIn.signal.side = "yes" THEN dIn.env.token_yes ELSE dIn.env.token_no

\* C15: a trade is appended to the ledger only when the settlement layer
\* confirmed its order (paper: status 200/201; live: the order result reports
\* success, which needs the instrument id); a rejected order, a missing
\* instrument id or an exception leaves the ledger as it was.
C15_LoggedOnlyAfterSettlement ==
    Routed =>
        /\ SubSeq(ledger, 1, Len(LedgerBefore)) = LedgerBefore
        /\ \A k \in DOMAIN Appended :
              IF MakerLive
              THEN /\ Appended[k].side = "yes"
                        => (dIn.env.settle = "ok" /\ dIn.env.token_yes)
                   /\ Appended[k].side = "no"
                        => (dIn.env.settle2 = "ok" /\ dIn.env.token_no)
              ELSE /\ dIn.env.settle = "ok"
                   /\ evt.success
                   /\ evt.mode = "live" => TokenPresent
        /\ (~MakerLive /\ (dIn.env.settle # "ok"
                           \/ (evt.mode = "live" /\ ~TokenPresent)))
              => ledger = LedgerBefore

\* A live order of a BaseBot was confirmed and its trade appended.
C15_Witness ==
    /\ Routed
    /\ ~MakerLive
    /\ evt.mode = "live"
    /\ dIn.env.settle = "ok"
    /\ Len(Appended) = 1
    /\ Appended[1].outcome = "pending"

\* The call reaches the submission of an order and the submission raises.
SubmissionRaises ==
    /\ ~dIn.paused
    /\ dIn.loss_by = "none"
    /\ ~dIn.env.db_error
    /\ dIn.env.settle = "exception"
    /\ evt.mode = "paper" \/ (~MakerLive /\ TokenPresent)

\* C16: an exception raised while an order is submitted does not leave
\* execute: the call returns success = false with a reason, appends nothing
\* and leaves the paused flag as it was.
C16_SubmissionExceptionContained ==
    (Routed /\ SubmissionRaises) =>
        /\ ~evt.raised
        /\ ~evt.success
        /\ evt.reason # "none"
        /\ ledger = LedgerBefore
        /\ bots[dIn.bot].paused = dIn.paused

\* C18: every execution attempt that returns ends either with a trade
\* persisted, or with a rejection whose reason code is in the result.
C18_PersistedOrReasoned ==
    (Routed /\ ~evt.raised) =>
        \/ evt.success /\ evt.rows >= 1
        \/ ~evt.success /\ evt.rows = 0 /\ evt.reason # "none"


(***************************************************************************)
(* BaseBot.mutate on parameter values                                      *)
(***************************************************************************)
\* A parameter value: an int, a float in ten-thousandths (round(x, 4)), or
\* a value that is neither.
IntParam(n) == [kind |-> "int", val |-> n]

FloatParam(n) == [kind |-> "float", val |-> n]

OtherParam == [kind |-> "other", val |-> 0]

\* config.MUTATION_RATE, in percent
MUTATION_RATE == 10

\* random.uniform(-rate, rate), in percent: both ends and both halves
MutationDraws ==
    {0 - MUTATION_RATE, 0 - (MUTATION_RATE \div 2), MUTATION_RATE \div 2,
     MUTATION_RATE}

\* base_bot.py:184
numeric_keys(params) ==
    {k \in DOMAIN params : params[k].kind \in {"int", "float"}}

\* base_bot.py:189-195  val + val * u, then int() and the floor 1, or
\* round(., 4) and the floor 0.01
mutate_value_no_floor(v, u) ==
    IF v.kind = "int"
    THEN [v EXCEPT !.val = (v.val * (100 + u)) \div 100]
    ELSE [v EXCEPT !.val = (v.val * (100 + u) + 50) \div 100]

mutate_value(v, u) ==
    IF v.kind = "int"
    THEN [v EXCEPT !.val = Max(1, (v.val * (100 + u)) \div 100)]
    ELSE [v EXCEPT !.val = Max(100, (v.val * (100 + u) + 50) \div 100)]

\* base_bot.py:179-197  new_params is a deep copy; winning_params is the
\* caller's map after the call
mutate(winning_params, keys_to_mutate, u) ==
    [new_params |->
        [k \in DOMAIN winning_params |->
            IF k \in keys_to_mutate
            THEN mutate_value(winning_params[k], u[k])
            ELSE winning_params[k]],
     winning_params |-> winning_params]

\* bot_momentum.py:5-12  DEFAULT_PARAMS, and a map that also holds a value
\* that is not a number
MomentumParams ==
    ("lookback_candles" :> IntParam(5))
    @@ ("momentum_threshold" :> FloatParam(20))
    @@ ("position_size_pct" :> FloatParam(500))
    @@ ("min_confidence" :> FloatParam(5500))
    @@ ("trend_strength_weight" :> FloatParam(7000))
    @@ ("volume_weight" :> FloatParam(3000))

LabelledParams ==
    ("lookback_candles" :> IntParam(5))
    @@ ("position_size_pct" :> FloatParam(500))
    @@ ("min_confidence" :> FloatParam(5500))
    @@ ("label" :> OtherParam)

MutateInputs == {MomentumParams, LabelledParams}

InitMutate ==
    /\ ArenaInit
    /\ mode = "paper"
    /\ dIn \in MutateInputs
    /\ dOut = NoDecision
    /\ pnlIn = <<>>

\* new_params = bot.mutate(dIn): dOut keeps the map as it was handed over
\* and the map returned, dIn is the caller's map after the call
MutateCall ==
    /\ dOut = NoDecision
    /\ \E n \in {2, 3} :
          LET num_mutations == Min(n, Cardinality(numeric_keys(dIn)))
          IN  \E keys_to_mutate \in SUBSET numeric_keys(dIn) :
                 /\ Cardinality(keys_to_mutate) = num_mutations
                 /\ \E u \in [keys_to_mutate -> MutationDraws] :
                       LET r == mutate(dIn, keys_to_mutate, u)
                       IN  /\ dOut' = [given |-> dIn, result |-> r.new_params]
                           /\ dIn' = r.winning_params
    /\ UNCHANGED <<bots, traded, ledger, outcomes, cycle_number, pc, scan, day,
                   mode, bot_configs, history, evt, execCalls, pnlIn>>

NextMutate == MutateCall

SpecMutate == InitMutate /\ [][NextMutate]_vars

Mutated == dOut # NoDecision

\* The keys whose value in the returned map differs from the input's.
Changed == {k \in DOMAIN dOut.given : dOut.result[k] # dOut.given[k]}

\* C20: mutate returns a map with the keys of its input in which exactly 2
\* or 3 numeric parameters differ from the input and every other parameter
\* equals it, and the input map is left as it was.
C20_MutateChangesTwoOrThree ==
    Mutated =>
        /\ DOMAIN dOut.result = DOMAIN dOut.given
        /\ Changed \subseteq numeric_keys(dOut.given)
        /\ Cardinality(Changed) \in {2, 3}
        /\ dIn = dOut.given


\* C21: every value mutate returns lies within mutation_rate of the value it
\* had in the input: |new - old| <= rate * |old|, for ints and floats alike.
C21_WithinMutationRate ==
    Mutated =>
        \A k \in numeric_keys(dOut.given) :
            LET old == dOut.given[k].val
                new == dOut.result[k].val
                dist == IF new >= old THEN new - old ELSE old - new
            IN  100 * dist <= MUTATION_RATE * old


(***************************************************************************)
(* Successive mutations along a lineage: the map mutate returned for a     *)
(* child is the map the next cycle hands to mutate                         *)
(***************************************************************************)
\* The longest chain of mutations followed.
MaxChain == 3

\* bot_late_window_maker.py:25-33  three of the DEFAULT_PARAMS: an int, a
\* float below the floor of 0.01 and a float above it
LateWindowParams ==
    ("lookback_candles" :> IntParam(3))
    @@ ("min_momentum" :> FloatParam(8))
    @@ ("position_size_pct" :> FloatParam(1000))

InitChain ==
    /\ ArenaInit
    /\ mode = "paper"
    /\ dIn = LateWindowParams
    /\ dOut = NoDecision
    /\ pnlIn = <<>>

\* arena.py:51-52 in cycle cycle_number + 1: mutate on the params of a
\* winner that is the child of the cycle before.  Ties of round(., 4) are
\* taken upwards.
ChainStep ==
    /\ cycle_number < MaxChain
    /\ cycle_number' = cycle_number + 1
    /\ \E n \in {2, 3} :
          LET num_mutations == Min(n, Cardinality(numeric_keys(dIn)))
          IN  \E keys_to_mutate \in SUBSET numeric_keys(dIn) :
                 /\ Cardinality(keys_to_mutate) = num_mutations
                 /\ \E u \in [keys_to_mutate -> MutationDraws] :
                       LET r == mutate(dIn, keys_to_mutate, u)
                       IN  /\ dOut' = [given |-> dIn, result |-> r.new_params,
                                       keys |-> keys_to_mutate]
                           /\ dIn' = r.new_params
    /\ UNCHANGED <<bots, traded, ledger, outcomes, pc, scan, day, mode,
                   bot_configs, history, evt, execCalls, pnlIn>>

NextChain == ChainStep

SpecChain == InitChain /\ [][NextChain]_vars

\* C22: after every mutation of a chain, every parameter has the numeric
\* kind it had, every mutated int is at least 1 and every mutated float at
\* least 0.01.
C22_FloorsAndKinds ==
    Mutated =>
        /\ \A k \in DOMAIN dOut.given :
              dOut.result[k].kind = dOut.given[k].kind
        /\ \A k \in dOut.keys :
              /\ dOut.result[k].kind = "int" => dOut.result[k].val >= 1
              /\ dOut.result[k].kind = "float" => dOut.result[k].val >= 100

\* The third mutation of a chain mutated an int that stood at 1 and a float
\* that stood at the floor: both are at their floors.
C22_Witness ==
    /\ Mutated
    /\ cycle_number = 3
    /\ "lookback_candles" \in dOut.keys
    /\ dOut.given["lookback_candles"].val = 1
    /\ dOut.result["lookback_candles"].val = 1
    /\ "min_momentum" \in dOut.keys
    /\ dOut.result["min_momentum"].val = 100


(***************************************************************************)
(* The window classifier: arena.is_5min_market                             *)
(***************************************************************************)
\* The hours and minutes the descriptions are written with.
ClockHours == {1, 10, 11, 12}

ClockMinutes == {0, 3, 5, 15, 58}

\* A time range as the pattern of arena.py:179 reads it from the lowered
\* description: hour, minute and am/pm of the start and of the end.
TimeRange(h1, m1, ap1, h2, m2, ap2) ==
    [h1 |-> h1, m1 |-> m1, ap1 |-> ap1, h2 |-> h2, m2 |-> m2, ap2 |-> ap2]

TimeRanges ==
    [h1 : ClockHours, m1 : ClockMinutes, ap1 : {"am", "pm"},
     h2 : ClockHours, m2 : ClockMinutes, ap2 : {"am", "pm"}]

\* A description, as the time ranges written in it from left to right: none,
\* one, or one followed by a 5-minute or a 15-minute range.
Questions ==
    {<<>>}
    \cup {<<r>> : r \in TimeRanges}
    \cup {<<r, TimeRange(10, 0, "pm", 10, m, "pm")>> :
             r \in TimeRanges, m \in {5, 15}}

\* arena.py:185-188  12-hour to 24-hour
to_24h(h, ap) ==
    IF ap = "pm" /\ h # 12 THEN h + 12
    ELSE IF ap = "am" /\ h = 12 THEN 0
    ELSE h

\* arena.py:174-192  re.search takes the leftmost range of the description
is_5min_market_no_wrap(question) ==
    IF question = <<>> THEN FALSE
    ELSE LET r == question[1]
             diff == (to_24h(r.h2, r.ap2) * 60 + r.m2)
                     - (to_24h(r.h1, r.ap1) * 60 + r.m1)
         IN  diff = 5

is_5min_market(question) ==
    IF question = <<>> THEN FALSE
    ELSE LET r == question[1]
             d == (to_24h(r.h2, r.ap2) * 60 + r.m2)
                  - (to_24h(r.h1, r.ap1) * 60 + r.m1)
             diff == IF d < 0 THEN d + 24 * 60 ELSE d
         IN  diff = 5

InitWindow ==
    /\ ArenaInit
    /\ mode = "paper"
    /\ dIn \in Questions
    /\ dOut = NoDecision
    /\ pnlIn = <<>>

\* arena.py:320  is_5min_market(m.get("question", ""))
ClassifyCall ==
    /\ dOut = NoDecision
    /\ dOut' = [accepted |-> is_5min_market(dIn)]
    /\ UNCHANGED <<bots, traded, ledger, outcomes, cycle_number, pc, scan, day,
                   mode, bot_configs, history, evt, execCalls, dIn, pnlIn>>

NextWindow == ClassifyCall

SpecWindow == InitWindow /\ [][NextWindow]_vars

Classified == dOut # NoDecision

\* Minutes from the start of a range to its end on the 24-hour clock, with
\* 12AM = 0:00 and 12PM = 12:00.
MinuteOfDay(h, m, ap) == ((h % 12) + (IF ap = "pm" THEN 12 ELSE 0)) * 60 + m

WrapDiff(r) ==
    (MinuteOfDay(r.h2, r.m2, r.ap2) - MinuteOfDay(r.h1, r.m1, r.ap1))
        % (24 * 60)

InitBreaker ==
    /\ bots = ExecBots
    /\ traded = {}
    /\ ledger = <<>>
    /\ outcomes = [m \in Markets |-> "none"]
    /\ cycle_number = 0
    /\ pc = "top"
    /\ scan = NoScan
    /\ day = 0
    /\ mode \in Modes
    /\ bot_configs = ConfigRows(ExecBots)
    /\ history = <<>>
    /\ evt = NoEvt
    /\ execCalls = EmptyBag
    /\ dIn = <<>>
    /\ dOut = NoDecision
    /\ pnlIn = <<>>

\* arena.py:337-346  the pair is not in the dedup set: execute is called
\* and the pair is added
BreakerCall ==
    \E i \in DOMAIN bots, market_id \in Listed :
        LET key == <<bots[i].name, market_id>>
        IN  /\ key \notin traded
            /\ outcomes[market_id] = "none"
            /\ \E env \in {e \in EnvsFor(bots[i]) : ~e.db_error} :
                  LET signal == BareSignal("yes", TRUE, MaxSuggested)
                      out == execute(bots[i], signal, market_id, env)
                  IN  /\ ApplyExecute(i, out, execute_mode(bots[i], env),
                                      MaxRows)
                      /\ traded' = mark_traded(key, out.raised, out.success)
            /\ UNCHANGED <<outcomes, cycle_number, pc, scan, day, mode,
                           bot_configs, history, execCalls, dIn, dOut, pnlIn>>

NextBreaker ==
    \/ BreakerCall
    \/ ResolveCall
    \/ MarketResolves

SpecBreaker == InitBreaker /\ [][NextBreaker]_vars

\* C24: in every mode, the loss a bot has realized today is at most its
\* daily cap plus one max position, and the loss the arena has realized
\* today is at most the aggregate cap plus one max position.
C24_LossWithinCapPlusOnePosition ==
    \A m \in Modes :
        /\ \A i \in DOMAIN bots :
              get_bot_daily_loss(bots[i].name, m)
                 <= MAX_DAILY_LOSS_PER_BOT + get_max_position(m) * Micro
        /\ get_total_daily_loss(m)
              <= MAX_DAILY_LOSS_TOTAL + get_max_position(m) * Micro


(***************************************************************************)
(* Successive evolution cycles of one run: each cycle ranks the population *)
(* the cycle before returned                                               *)
(***************************************************************************)
\* The number of cycles followed.
MaxLineage == 2

\* perf["total_pnl"] of the bots in population order: every ranking of four
\* different pnls.
PnlOrders ==
    {p \in [DOMAIN create_default_bots -> PnlValues] :
        \A i, j \in DOMAIN p : i # j => p[i] # p[j]}

InitLineage ==
    /\ ArenaInit
    /\ mode = "paper"
    /\ dIn = <<>>
    /\ dOut = NoDecision
    /\ pnlIn = <<>>

\* arena.py:303-307
EvolveAgain ==
    /\ cycle_number < MaxLineage
    /\ \E pnl \in PnlOrders : Evolve(pnl)
    /\ UNCHANGED <<ledger, outcomes, pc, scan, day, mode, dIn, dOut, pnlIn>>

NextLineage == EvolveAgain

SpecLineage == InitLineage /\ [][NextLineage]_vars

TypesOf(bs) == {bs[i].strategy_type : i \in DOMAIN bs}

\* The bot of the population bs that is called name.
BotNamed(bs, name) == bs[CHOOSE i \in DOMAIN bs : bs[i].name = name]

\* C25: an evolution cycle leaves the population at its size, carries
\* exactly SURVIVORS_PER_CYCLE bots over from the population before, leaves
\* the names pairwise distinct and the set of strategy types as it was.
C25_PopulationShape ==
    [][cycle_number' # cycle_number =>
          /\ Len(bots') = Len(bots)
          /\ Cardinality(Names(bots') \cap Names(bots)) = SURVIVORS_PER_CYCLE
          /\ Cardinality(Names(bots')) = Len(bots')
          /\ TypesOf(bots') = TypesOf(bots)
      ]_vars

\* The second cycle has run on a population that holds children of the
\* first, and one of those children was replaced in it.
C25_Witness ==
    /\ cycle_number = 2
    /\ Len(bots) = Len(create_default_bots)
    /\ \E name \in history[2].replaced : name \in history[1].new_bots

\* C26: every child created by a cycle has a generation strictly greater
\* than the generation of the parent named first in its lineage, and a bot
\* that is carried over keeps its generation.
C26_GenerationMonotonic ==
    [][cycle_number' # cycle_number =>
          \A j \in DOMAIN bots' :
              IF bots'[j].name \in Names(bots)
              THEN bots'[j].generation
                      = BotNamed(bots, bots'[j].name).generation
              ELSE /\ bots'[j].lineage[1] \in Names(bots)
                   /\ bots'[j].generation
                         > BotNamed(bots, bots'[j].lineage[1]).generation
      ]_vars

\* A child of the first cycle survived the second and is the parent of a
\* child of the second cycle.
C26_Witness ==
    /\ cycle_number = 2
    /\ \E j \in DOMAIN bots :
          /\ bots[j].generation = 2
          /\ bots[j].lineage[1] \in history[1].new_bots
          /\ bots[j].lineage[1] \in history[2].survivors


(***************************************************************************)
(* The entry points that set the trading mode: arena.main --mode, and the  *)
(* dashboard's set_mode and set_bot_mode                                   *)
(***************************************************************************)
\* What the operator asks for: the entry point, the mode, the bot (for the
\* per-bot endpoint), and what is typed at a confirmation prompt, if one is
\* shown.
ModeRequests ==
    [entry : {"arena_flag", "dashboard_global", "dashboard_bot"},
     mode : Modes, bot : DOMAIN ExecBots, confirm : {"YES", "no", "absent"}]

\* db.get_bot_mode / db.set_bot_mode: the trading mode stored for each bot.
BotModes(m) == [name \in Names(ExecBots) |-> m]

InitMode ==
    /\ bots = ExecBots
    /\ traded = {}
    /\ ledger = <<>>
    /\ outcomes = [m \in Markets |-> IF m = 1 THEN "none" ELSE "future"]
    /\ cycle_number = 0
    /\ pc = "top"
    /\ scan = NoScan
    /\ day = 0
    /\ mode = "paper"
    /\ bot_configs = ConfigRows(ExecBots)
    /\ history = <<>>
    /\ evt = NoEvt
    /\ execCalls = EmptyBag
    /\ dIn \in ModeRequests
    /\ dOut = BotModes("paper")
    /\ pnlIn = <<>>

\* arena.py:376-383  a denied confirmation ends the process
main_mode(request) ==
    IF request.mode = "live" /\ request.confirm # "YES"
    THEN [mode |-> mode, bot_modes |-> dOut, pc |-> "exit"]
    ELSE [mode |-> request.mode, bot_modes |-> dOut, pc |-> pc]

\* dashboard/server.py:136-143
set_mode(request) ==
    [mode |-> request.mode, bot_modes |-> dOut, pc |-> pc]

\* dashboard/server.py:146-153
set_bot_mode(request) ==
    [mode |-> mode,
     bot_modes |-> [dOut EXCEPT ![ExecBots[request.bot].name] = request.mode],
     pc |-> pc]

ModeRequest ==
    /\ evt.op = "none"
    /\ LET r == CASE dIn.entry = "arena_flag" -> main_mode(dIn)
                  [] dIn.entry = "dashboard_global" -> set_mode(dIn)
                  [] OTHER -> set_bot_mode(dIn)
       IN  /\ mode' = r.mode
           /\ dOut' = r.bot_modes
           /\ pc' = r.pc
    /\ evt' = OpEvt("set_mode")
    /\ UNCHANGED <<bots, traded, ledger, outcomes, cycle_number, scan, day,
                   bot_configs, history, execCalls, dIn, pnlIn>>

\* The arena trades in the modes now stored: BaseBot.execute reads the
\* global mode, BtcMakerBot.execute the mode stored for the bot.
TradeInMode ==
    /\ evt.op = "set_mode"
    /\ pc # "exit"
    /\ \E i \in DOMAIN bots :
          \E signal \in SignalsFor(bots[i]),
             env \in {e \in EnvsFor(bots[i]) :
                         /\ ~e.db_error
                         /\ bots[i].strategy_type = "btc_maker"
                               => e.bot_mode = dOut[bots[i].name]} :
             LET out == execute(bots[i], signal, 1, env)
             IN  ApplyExecute(i, out, execute_mode(bots[i], env), MaxRows)
    /\ UNCHANGED <<traded, outcomes, cycle_number, pc, scan, day, mode,
                   bot_configs, history, execCalls, dIn, dOut, pnlIn>>

NextMode ==
    \/ ModeRequest
    \/ TradeInMode

SpecMode == InitMode /\ [][NextMode]_vars

\* C27: without the operator's confirmation the global mode and every
\* bot's mode stay paper and no trade is placed in live mode, through every
\* entry point.
C27_LiveOnlyAfterConfirmation ==
    dIn.confirm # "YES" =>
        /\ mode = "paper"
        /\ \A name \in DOMAIN dOut : dOut[name] = "paper"
        /\ \A k \in DOMAIN ledger : ledger[k].mode # "live"


(***************************************************************************)
(* The sizing variants against the base mean-reversion decision            *)
(***************************************************************************)
\* MeanRevBot inherits BaseBot.make_decision: the decision of the base bot
\* on the same analyze signal, learned bias and mode.
BaseDecision == make_decision(dIn.raw, dIn.bias, dIn.mode)

LateWindowDefaults ==
    [entry_window_sec |-> 90, min_momentum |-> 800, min_price_yes |-> 58,
     max_price_yes |-> 92, lookback_candles |-> 3]

\* bot_fee_zone_maker.py:40-49  (prices and confidences in hundredths)
FeeZoneDefaults ==
    [min_price_zone |-> 60, max_price_zone |-> 82, min_fee_bps |-> 80,
     momentum_weight |-> 30, lookback_candles |-> 5, min_confidence |-> 25]

GatedTypes == {"late_window_maker", "fee_zone_maker"}

GatedKeys(t) ==
    IF t = "late_window_maker"
    THEN {"entry_window_sec", "min_momentum", "min_price_yes",
          "max_price_yes", "maker_offset_pct", "position_size_pct",
          "lookback_candles"}
    ELSE {"min_price_zone", "max_price_zone", "min_fee_bps", "spread_ticks",
          "momentum_weight", "position_size_pct", "lookback_candles",
          "min_confidence"}

\* LateWindowMakerBot() and FeeZoneMakerBot() with their default names
GatedBot(t) == NewBot(DefaultName(t), t, GatedKeys(t), 0, <<DefaultName(t)>>)

\* market["time_remaining_seconds"]: <<>> when the key is absent
TimesRemaining == {<<>>, <<30>>, <<90>>, <<91>>, <<120>>}

\* market["current_price"], hundredths
MarketPrices == {50, 59, 60, 70, 82, 83, 95}

\* signals["prices"]: none, flat, rising, falling, and a zero oldest price
PriceFeeds ==
    {<<>>,
     <<1000, 1000, 1000, 1000, 1000>>,
     <<1000, 1000, 1000, 1001, 1002>>,
     <<1000, 1000, 1000, 999, 998>>,
     <<0, 0, 0, 0, 5>>}

GateInputs ==
    [bot : GatedTypes, time_rem : TimesRemaining, market_price : MarketPrices,
     prices : PriceFeeds, bias : {0, 50, 100}]

\* bot_late_window_maker.py:74-78, bot_fee_zone_maker.py:107-111
\* (prices[-1] - prices[-lb]) / prices[-lb], in millionths
momentum_of(prices, lb) ==
    IF Len(prices) >= lb /\ prices[Len(prices) - lb + 1] > 0
    THEN LET first == prices[Len(prices) - lb + 1]
             d == prices[Len(prices)] - first
         IN  IF d >= 0 THEN (d * Micro) \div first
             ELSE 0 - ((0 - d) * Micro) \div first
    ELSE 0

\* bot_late_window_maker.py:50-135
LateWindow_analyze(market, signals) ==
    LET p == LateWindowDefaults
        time_rem == market.time_rem
        momentum == momentum_of(signals.prices, p.lookback_candles)
        time_weight == ((p.entry_window_sec - time_rem[1]) * 100)
                           \div p.entry_window_sec
        mom_strength == Min(100, (Abs(momentum) * 100)
                                     \div (p.min_momentum * 5))
    IN  CASE time_rem = <<>> -> Hold
          [] time_rem[1] > p.entry_window_sec -> Hold
          [] Abs(momentum) < p.min_momentum -> Hold
          [] momentum < 0 -> Hold
          [] market.market_price < p.min_price_yes -> Hold
          [] market.market_price > p.max_price_yes -> Hold
          [] OTHER ->
               [action |-> "buy", side |-> "yes",
                confidence |->
                    Min(92, 45 + (time_weight * 30) \div 100
                               + (mom_strength * 20) \div 100)]

\* bot_fee_zone_maker.py:35-37  taker_fee(price) * 10000, times 40000
taker_fee_bps_x40000(price) == (price * (100 - price)) * (price * (100 - price))

\* bot_fee_zone_maker.py:66-156
FeeZone_analyze(market, signals) ==
    LET p == FeeZoneDefaults
        market_price == market.market_price
        momentum == momentum_of(signals.prices, p.lookback_candles)
        price_signal == ((market_price - p.min_price_zone) * 100)
                            \div (p.max_price_zone - p.min_price_zone)
        mom_boost == Min(30, Max(0, (momentum * 50) \div 10000))
        confidence ==
            Min(88, 30 + (price_signal * (100 - p.momentum_weight) * 50)
                             \div 10000
                       + (mom_boost * p.momentum_weight) \div 100)
    IN  CASE ~(p.min_price_zone <= market_price
               /\ market_price <= p.max_price_zone) -> Hold
          [] taker_fee_bps_x40000(market_price) < p.min_fee_bps * 40000 -> Hold
          [] momentum < 0 - 1500 -> Hold
          [] confidence < p.min_confidence -> Hold
          [] OTHER ->
               [action |-> "buy", side |-> "yes", confidence |-> confidence]

gated_analyze(in) ==
    IF in.bot = "late_window_maker"
    THEN LateWindow_analyze(in, in)
    ELSE FeeZone_analyze(in, in)

InitGate ==
    /\ bots = <<GatedBot("late_window_maker"), GatedBot("fee_zone_maker")>>
    /\ traded = {}
    /\ ledger = <<>>
    /\ outcomes = [m \in Markets |-> IF m = 1 THEN "none" ELSE "future"]
    /\ cycle_number = 0
    /\ pc = "top"
    /\ scan = NoScan
    /\ day = 0
    /\ mode \in Modes
    /\ bot_configs = <<>>
    /\ history = <<>>
    /\ evt = NoEvt
    /\ execCalls = EmptyBag
    /\ dIn \in GateInputs
    /\ dOut = NoDecision
    /\ pnlIn = <<>>

\* arena.py:337-354  the main loop's body for the pair (bot, market 1):
\* signal = bot.make_decision(market, signals); bot.execute(signal, market);
\* traded.add(key).  dOut keeps what analyze returned inside make_decision.
GatedPair ==
    /\ dOut = NoDecision
    /\ \E i \in DOMAIN bots :
          /\ bots[i].strategy_type = dIn.bot
          /\ LET raw_signal == gated_analyze(dIn)
                 signal == SignalOf(make_decision(raw_signal, dIn.bias, mode))
             IN  /\ dOut' = raw_signal
                 /\ \E env \in {e \in EnvsFor(bots[i]) : ~e.db_error} :
                       LET out == execute(bots[i], signal, 1, env)
                       IN  /\ ApplyExecute(i, out,
                                           execute_mode(bots[i], env), MaxRows)
                           /\ traded' = mark_traded(<<bots[i].name, 1>>,
                                                    out.raised, out.success)
    /\ UNCHANGED <<outcomes, cycle_number, pc, scan, day, mode, bot_configs,
                   history, execCalls, dIn, pnlIn>>

NextGate == GatedPair

SpecGate == InitGate /\ [][NextGate]_vars

\* The late-window gate is closed: time remaining unknown or above
\* entry_window_sec.
LateGateClosed ==
    /\ dIn.bot = "late_window_maker"
    /\ \/ dIn.time_rem = <<>>
       \/ dIn.time_rem[1] > LateWindowDefaults.entry_window_sec

\* The fee-zone gate is closed: price outside [min_price_zone,
\* max_price_zone].
FeeGateClosed ==
    /\ dIn.bot = "fee_zone_maker"
    /\ \/ dIn.market_price < FeeZoneDefaults.min_price_zone
       \/ dIn.market_price > FeeZoneDefaults.max_price_zone

\* C29: a gated variant whose gate is closed places no trade on the market
\* along analyze -> make_decision -> execute.
C29_NoTradeWhileGateClosed ==
    (LateGateClosed \/ FeeGateClosed) => ledger = <<>>


(***************************************************************************)
(* analyze on insufficient market data, for every bot of the population    *)
(***************************************************************************)
\* C30: every bot of the population, default or created by evolution,
\* returns hold from analyze without raising when the market data is
\* insufficient (no prices, no sentiment data).
C30_HoldOnInsufficientData ==
    \A i \in DOMAIN bots : ~AnalyzeRaises(bots[i], "insufficient")


(***************************************************************************)
(* Determinism of the ranking in run_evolution                             *)
(***************************************************************************)
\* The random choices of one run_evolution call on a population of n bots:
\* the parent of each child and the suffix of its name.
ParentChoices(n) == [1..(n - SURVIVORS_PER_CYCLE) -> 1..SURVIVORS_PER_CYCLE]

SuffixChoices(n) == [1..(n - SURVIVORS_PER_CYCLE) -> 1..MaxSuffix]

\* C31: on the same population and the same pnls every run of
\* run_evolution selects the same survivor set and the same replaced set,
\* whatever its random choices; among bots with equal pnl the one earlier
\* in population order ranks higher, so a later one never survives in place
\* of an earlier one.
C31_RankingDeterministic ==
    [][history' # history =>
          LET entry == history'[Len(history')]
          IN  /\ \A parent \in ParentChoices(Len(bots)),
                    suffix \in SuffixChoices(Len(bots)) :
                     LET again == run_evolution(bots, cycle_number + 1, pnlIn,
                                                parent, suffix).entry
                     IN  /\ again.survivors = entry.survivors
                         /\ again.replaced = entry.replaced
              /\ \A i, j \in DOMAIN bots :
                     (i < j /\ pnlIn[i] = pnlIn[j]
                      /\ bots[j].name \in entry.survivors)
                         => bots[i].name \in entry.survivors]_vars

\* A cycle has run on pnls that tie across the survival boundary, and the
\* two bots earliest in population order survived.
C31_Witness ==
    /\ Evolved
    /\ pnlIn = <<5, 5, 5, 5>>
    /\ history[1].survivors = {DefaultName("momentum"),
                               DefaultName("mean_reversion")}
    /\ history[1].replaced = {DefaultName("sentiment"), DefaultName("hybrid")}


(***************************************************************************)
(* signals/price_feed.py: PriceFeed, its writer threads (_run) and the     *)
(* control thread's calls start, stop and get_signals                      *)
(***************************************************************************)
\* The feed object is kept in dIn, the writer threads in pnlIn and the
\* control thread's running get_signals call in dOut.  A closed candle is
\* its number in the exchange's stream: its close price and its volume are
\* both written as that number, so equal entries are the same candle.
MaxThreads == 2

MaxStream == 2

\* price_feed.py:16  PriceFeed(max_candles): the maxlen of both deques
max_candles == 3

\* deque(maxlen=n).append(x)
deque_append(q, x, n) ==
    IF Len(q) < n THEN Append(q, x) ELSE Append(Tail(q), x)

\* price_feed.py:16-22  PriceFeed.__init__, for the symbol "btc"
NewFeed == [prices |-> <<>>, volumes |-> <<>>, running |-> FALSE]

\* threading.Thread(target=self._run): at the head of its loop, connected
\* to a stream whose next closed candle is number 1
NewWriter == [pc |-> "while", candle |-> 1]

InitFeed ==
    /\ ArenaInit
    /\ mode = "paper"
    /\ dIn = NewFeed
    /\ pnlIn = <<>>
    /\ dOut = [pc |-> "idle", prices |-> <<>>, volumes |-> <<>>]

\* price_feed.py:24-30  a second start while running returns at once
start(feed, threads) ==
    IF feed.running THEN [feed |-> feed, threads |-> threads]
    ELSE [feed |-> [feed EXCEPT !.running = TRUE],
          threads |-> Append(threads, NewWriter)]

\* price_feed.py:32-33
stop(feed) == [feed EXCEPT !.running = FALSE]

Start ==
    /\ Len(pnlIn) < MaxThreads
    /\ LET r == start(dIn, pnlIn)
       IN  /\ dIn' = r.feed
           /\ pnlIn' = r.threads
    /\ UNCHANGED <<arena_vars, dOut>>

Stop ==
    /\ dIn' = stop(dIn)
    /\ UNCHANGED <<arena_vars, dOut, pnlIn>>

\* price_feed.py:41, 48  while self._running
WriterWhile(t) ==
    /\ pnlIn[t].pc = "while"
    /\ pnlIn' = [pnlIn EXCEPT ![t].pc =
                    IF dIn.running THEN "recv" ELSE "done"]
    /\ UNCHANGED <<arena_vars, dIn, dOut>>

\* price_feed.py:50-68  ws.recv() delivers the next closed candle of the
\* thread's stream and the thread appends its close price
WriterAppendPrice(t) ==
    /\ pnlIn[t].pc = "recv"
    /\ pnlIn[t].candle <= MaxStream
    /\ dIn' = [dIn EXCEPT !.prices =
                  deque_append(dIn.prices, pnlIn[t].candle, max_candles)]
    /\ pnlIn' = [pnlIn EXCEPT ![t].pc = "append_volume"]
    /\ UNCHANGED <<arena_vars, dOut>>

\* price_feed.py:69
WriterAppendVolume(t) ==
    /\ pnlIn[t].pc = "append_volume"
    /\ dIn' = [dIn EXCEPT !.volumes =
                  deque_append(dIn.volumes, pnlIn[t].candle, max_candles)]
    /\ pnlIn' = [pnlIn EXCEPT ![t].pc = "while",
                              ![t].candle = pnlIn[t].candle + 1]
    /\ UNCHANGED <<arena_vars, dOut>>

\* price_feed.py:50-52, 60, 71-77  ws.recv() times out or fails, or the
\* message is not a closed candle: nothing is appended
WriterNoCandle(t) ==
    /\ pnlIn[t].pc = "recv"
    /\ pnlIn' = [pnlIn EXCEPT ![t].pc = "while"]
    /\ UNCHANGED <<arena_vars, dIn, dOut>>

\* price_feed.py:87  "prices": list(self.prices[sym])
ReadPrices ==
    /\ dOut.pc \in {"idle", "returned"}
    /\ dOut' = [pc |-> "read_volumes", prices |-> dIn.prices,
                volumes |-> <<>>]
    /\ UNCHANGED <<arena_vars, dIn, pnlIn>>

\* price_feed.py:88  "volumes": list(self.volumes[sym]), and the return
ReadVolumes ==
    /\ dOut.pc = "read_volumes"
    /\ dOut' = [dOut EXCEPT !.pc = "returned", !.volumes = dIn.volumes]
    /\ UNCHANGED <<arena_vars, dIn, pnlIn>>

NextFeed ==
    \/ Start
    \/ Stop
    \/ \E t \in DOMAIN pnlIn : WriterWhile(t)
    \/ \E t \in DOMAIN pnlIn : WriterAppendPrice(t)
    \/ \E t \in DOMAIN pnlIn : WriterAppendVolume(t)
    \/ \E t \in DOMAIN pnlIn : WriterNoCandle(t)
    \/ ReadPrices
    \/ ReadVolumes

SpecFeed == InitFeed /\ [][NextFeed]_vars

\* C32: every snapshot get_signals returns has prices and volumes of equal
\* length that describe the same closed candles.
C32_SnapshotConsistent ==
    dOut.pc = "returned" =>
        /\ Len(dOut.prices) = Len(dOut.volumes)
        /\ dOut.prices = dOut.volumes

\* The writer threads that have not left _run.
ActiveWriters == {t \in DOMAIN pnlIn : pnlIn[t].pc # "done"}

\* C39: at most one writer thread is active at any time, over any sequence
\* of start and stop calls.
C39_AtMostOneWriter == Cardinality(ActiveWriters) <= 1


(***************************************************************************)
(* signals/wallet_monitor.py: WalletMonitor, its two polling threads and   *)
(* the control thread's calls seed_seen_keys and drain_queue               *)
(***************************************************************************)
\* The monitor object is kept in dIn, the WebSocket thread (1) and the
\* fallback thread (2) in pnlIn, the control thread in dOut.  An activity
\* entry is its key "{tx_hash}:{asset}", a number of WalletKeys.
MaxKeys == 3

MaxActivity == 3

MaxPuts == 4

WalletKeys == 1..MaxKeys

RECURSIVE Flatten(_)
Flatten(ss) == IF ss = <<>> THEN <<>> ELSE Head(ss) \o Flatten(Tail(ss))

SeqRange(q) == {q[i] : i \in DOMAIN q}

\* A filter that passes the unseen entries on without adding their keys
\* to the seen set.
RECURSIVE poll_filter_no_mark(_, _)
poll_filter_no_mark(entries, seen_keys) ==
    IF entries = <<>> THEN [new_trades |-> <<>>, seen_keys |-> seen_keys]
    ELSE LET key == Head(entries)
             rest == poll_filter_no_mark(Tail(entries), seen_keys)
         IN  IF key \in seen_keys THEN rest
             ELSE [new_trades |-> <<key>> \o rest.new_trades,
                   seen_keys |-> rest.seen_keys]

\* wallet_monitor.py:110-123  the loop under _seen_lock over the entries
\* fetched: the unseen entries in order, each key once, and the seen set
\* after it.
RECURSIVE poll_filter(_, _)
poll_filter(entries, seen_keys) ==
    IF entries = <<>> THEN [new_trades |-> <<>>, seen_keys |-> seen_keys]
    ELSE LET key == Head(entries)
         IN  IF key \in seen_keys THEN poll_filter(Tail(entries), seen_keys)
             ELSE LET rest == poll_filter(Tail(entries),
                                          seen_keys \cup {key})
                  IN  [new_trades |-> <<key>> \o rest.new_trades,
                       seen_keys |-> rest.seen_keys]

\* wallet_monitor.py:45-52  WalletMonitor.__init__, with the wallet's
\* activity list as the API serves it and the record of the puts made
NewMonitor ==
    [seen_keys |-> {}, trade_queue |-> <<>>, activity |-> <<>>,
     puts |-> <<>>, seeded |-> {}]

\* A polling thread between two polls.
PollerIdle == [pc |-> "wait", entries |-> <<>>, new_trades |-> <<>>,
               seeded_before |-> {}]

InitMonitor ==
    /\ ArenaInit
    /\ mode = "paper"
    /\ dIn = NewMonitor
    /\ pnlIn = <<PollerIdle, PollerIdle>>
    /\ dOut = [pc |-> "idle", trades |-> <<>>, drains |-> <<>>]

\* The tracked wallet trades: the activity API lists one more entry, with
\* the next new key or (a second fill of the same transaction and asset)
\* with the key of the entry before it.
WalletTrades ==
    /\ Len(dIn.activity) < MaxActivity
    /\ \E key \in WalletKeys :
          /\ \/ key = Cardinality(SeqRange(dIn.activity)) + 1
             \/ /\ dIn.activity # <<>>
                /\ key = dIn.activity[Len(dIn.activity)]
          /\ dIn' = [dIn EXCEPT !.activity = Append(dIn.activity, key)]
    /\ UNCHANGED <<arena_vars, dOut, pnlIn>>

\* wallet_monitor.py:77-81  seed_seen_keys(keys), called by the control
\* thread
SeedSeenKeys ==
    /\ dIn.seeded = {}
    /\ \E keys \in SUBSET WalletKeys :
          /\ keys # {}
          /\ dIn' = [dIn EXCEPT !.seen_keys = dIn.seen_keys \cup keys,
                                !.seeded = keys]
    /\ UNCHANGED <<arena_vars, dOut, pnlIn>>

\* wallet_monitor.py:97-108, 198, 221  a new block or the fallback timer
\* starts a poll; the request answers with the current activity list
PollFetch(t) ==
    /\ pnlIn[t].pc = "wait"
    /\ pnlIn' = [pnlIn EXCEPT ![t] = [pc |-> "fetched",
                                      entries |-> dIn.activity,
                                      new_trades |-> <<>>,
                                      seeded_before |-> dIn.seeded]]
    /\ UNCHANGED <<arena_vars, dIn, dOut>>

\* wallet_monitor.py:103-108, 124-126  the request fails or its answer is
\* not a list: the poll returns []
PollFails(t) ==
    /\ pnlIn[t].pc = "fetched"
    /\ pnlIn' = [pnlIn EXCEPT ![t] = PollerIdle]
    /\ UNCHANGED <<arena_vars, dIn, dOut>>

\* wallet_monitor.py:110-123  one critical section under _seen_lock
PollFilter(t) ==
    /\ pnlIn[t].pc = "fetched"
    /\ LET r == poll_filter(pnlIn[t].entries, dIn.seen_keys)
       IN  /\ dIn' = [dIn EXCEPT !.seen_keys = r.seen_keys]
           /\ pnlIn' = [pnlIn EXCEPT ![t].pc =
                                         IF r.new_trades = <<>> THEN "wait"
                                         ELSE "enqueue",
                                     ![t].new_trades = r.new_trades]
    /\ UNCHANGED <<arena_vars, dOut>>

\* wallet_monitor.py:112-126  an entry that is not a dict raises inside the
\* loop: the keys before it stay marked and the poll returns []
PollFilterRaises(t) ==
    /\ pnlIn[t].pc = "fetched"
    /\ \E n \in 0..(Len(pnlIn[t].entries) - 1) :
          LET r == poll_filter(SubSeq(pnlIn[t].entries, 1, n), dIn.seen_keys)
          IN  dIn' = [dIn EXCEPT !.seen_keys = r.seen_keys]
    /\ pnlIn' = [pnlIn EXCEPT ![t] = PollerIdle]
    /\ UNCHANGED <<arena_vars, dOut>>

\* wallet_monitor.py:128-130  self.trade_queue.put(t), one trade per step
Enqueue(t) ==
    /\ pnlIn[t].pc = "enqueue"
    /\ Len(dIn.puts) < MaxPuts
    /\ LET key == Head(pnlIn[t].new_trades)
           rest == Tail(pnlIn[t].new_trades)
       IN  /\ dIn' = [dIn EXCEPT
                         !.trade_queue = Append(dIn.trade_queue, key),
                         !.puts = Append(dIn.puts,
                                     [key |-> key, thread |-> t,
                                      seeded_before_poll |->
                                          key \in pnlIn[t].seeded_before])]
           /\ pnlIn' = [pnlIn EXCEPT ![t].new_trades = rest,
                                     ![t].pc = IF rest = <<>> THEN "wait"
                                               ELSE "enqueue"]
    /\ UNCHANGED <<arena_vars, dOut>>

\* wallet_monitor.py:83-88  drain_queue: one successful get_nowait
DrainGet ==
    /\ dOut.pc \in {"idle", "draining"}
    /\ dIn.trade_queue # <<>>
    /\ dOut' = [dOut EXCEPT !.pc = "draining",
                            !.trades = Append(dOut.trades,
                                              Head(dIn.trade_queue))]
    /\ dIn' = [dIn EXCEPT !.trade_queue = Tail(dIn.trade_queue)]
    /\ UNCHANGED <<arena_vars, pnlIn>>

\* wallet_monitor.py:89-91  queue.Empty ends the call; the trades returned
\* by the calls that returned any are kept in drains
DrainReturn ==
    /\ dOut.pc = "draining"
    /\ dIn.trade_queue = <<>>
    /\ dOut' = [pc |-> "idle", trades |-> <<>>,
                drains |-> Append(dOut.drains, dOut.trades)]
    /\ UNCHANGED <<arena_vars, dIn, pnlIn>>

NextMonitor ==
    \/ WalletTrades
    \/ SeedSeenKeys
    \/ \E t \in DOMAIN pnlIn : PollFetch(t)
    \/ \E t \in DOMAIN pnlIn : PollFails(t)
    \/ \E t \in DOMAIN pnlIn : PollFilter(t)
    \/ \E t \in DOMAIN pnlIn : PollFilterRaises(t)
    \/ \E t \in DOMAIN pnlIn : Enqueue(t)
    \/ DrainGet
    \/ DrainReturn

SpecMonitor == InitMonitor /\ [][NextMonitor]_vars

PutKeys == [i \in DOMAIN dIn.puts |-> dIn.puts[i].key]

\* C34: every key is put on the queue at most once, no key seeded before
\* the poll that found it is put on the queue, and the trades the
\* drain_queue calls have returned, followed by those a running call holds
\* and those still queued, are the trades put, in the order they were put.
C34_EnqueuedOnceDrainedOnce ==
    /\ \A i, j \in DOMAIN dIn.puts :
           dIn.puts[i].key = dIn.puts[j].key => i = j
    /\ \A i \in DOMAIN dIn.puts : ~dIn.puts[i].seeded_before_poll
    /\ Flatten(dOut.drains) \o dOut.trades \o dIn.trade_queue = PutKeys

\* Both threads have put a trade, a seeded key is listed by the API, and
\* two drain_queue calls have returned trades.
C34_Witness ==
    /\ \E i, j \in DOMAIN dIn.puts :
           dIn.puts[i].thread = 1 /\ dIn.puts[j].thread = 2
    /\ dIn.seeded \cap SeqRange(dIn.activity) # {}
    /\ Len(dOut.drains) = 2


(***************************************************************************)
(* bots/bot_copy.py: CopyBot.check_and_copy over cycles and restarts       *)
(***************************************************************************)
\* The bot, its table copytrading_trades, the wallet's activity list and
\* the attached monitor are kept in dIn; dOut keeps what the last
\* check_and_copy call did.
MaxCopies == 3

\* config.COPYTRADING_MAX_TRADES_PER_CYCLE
COPYTRADING_MAX_TRADES_PER_CYCLE == 1

\* What _execute_one does with one trade (bot_copy.py:237-354):
\*   skip     a filter rejects it: the key is marked seen (258-291, 300-303,
\*            320-326)
\*   retry    no market for a recent trade: the key is not marked (304-310)
\*   failed   marked seen, the order is refused (336-354)
\*   copied   marked seen, the order is placed and _log_copy_trade stores
\*            the key (345-352)
\*   copied_unlogged   marked seen, the order is placed and the insert of
\*            _log_copy_trade fails (111-112)
ExecuteOutcomes == {"skip", "retry", "failed", "copied", "copied_unlogged"}

\* bot_copy.py:36-62  CopyBot.__init__ on the keys _load_seen_keys found,
\* and attach_monitor of a new WalletMonitor when one is used
NewCopyBot(loaded, attached, old) ==
    [seen_keys |-> loaded,
     persisted |-> old.persisted,
     activity |-> old.activity,
     attached |-> attached,
     monitor_seen |-> IF attached THEN loaded ELSE {},
     trade_queue |-> <<>>,
     copies |-> old.copies,
     deferred |-> {}]

NoCopyState == [persisted |-> {}, activity |-> <<>>, copies |-> <<>>]

NoCycle == [offered |-> <<>>, count |-> 0]

InitCopy ==
    /\ ArenaInit
    /\ mode = "paper"
    /\ \E attached \in BOOLEAN : dIn = NewCopyBot({}, attached, NoCopyState)
    /\ pnlIn = <<>>
    /\ dOut = NoCycle

\* The tracked wallet trades: the activity API lists a new entry.
WalletActivity ==
    /\ Len(dIn.activity) < MaxActivity
    /\ dIn' = [dIn EXCEPT !.activity =
                  Append(dIn.activity, Len(dIn.activity) + 1)]
    /\ UNCHANGED <<arena_vars, dOut, pnlIn>>

\* wallet_monitor.py:95-130  a poll of the attached monitor and its puts
MonitorPoll ==
    /\ dIn.attached
    /\ LET r == poll_filter(dIn.activity, dIn.monitor_seen)
       IN  /\ r.new_trades # <<>>
           /\ dIn' = [dIn EXCEPT !.monitor_seen = r.seen_keys,
                                 !.trade_queue = dIn.trade_queue
                                                     \o r.new_trades]
    /\ UNCHANGED <<arena_vars, dOut, pnlIn>>

\* bot_copy.py:127-163  fetch_new_trades: the listed entries whose key is
\* neither in seen_keys nor met earlier in this call; the bot's seen_keys
\* is not changed
fetch_new_trades(activity, seen_keys) ==
    poll_filter(activity, seen_keys).new_trades

\* bot_copy.py:361-364  the trades the call starts from
NewTrades(st) ==
    IF st.attached THEN st.trade_queue
    ELSE fetch_new_trades(st.activity, st.seen_keys)

\* bot_copy.py:237-354  _execute_one on one trade
execute_one(st, key, outcome) ==
    [st EXCEPT
        !.seen_keys = IF outcome = "retry" THEN @ ELSE @ \cup {key},
        !.persisted = IF outcome = "copied" THEN @ \cup {key} ELSE @,
        !.copies = IF outcome \in {"copied", "copied_unlogged"}
                   THEN Append(@, key) ELSE @]

\* bot_copy.py:382-405  the loop over new_trades from position k on:
\* loss_at is the position at which the daily loss limit is found reached
\* (0: never)
RECURSIVE copy_loop(_, _, _, _, _, _, _)
copy_loop(st, new_trades, outcomes_of, loss_at, k, count, offered) ==
    IF k > Len(new_trades) \/ count >= COPYTRADING_MAX_TRADES_PER_CYCLE
       \/ k = loss_at
    THEN [st |-> st, count |-> count, offered |-> offered]
    ELSE LET key == new_trades[k]
             outcome == outcomes_of[k]
         IN  copy_loop(execute_one(st, key, outcome), new_trades,
                       outcomes_of, loss_at, k + 1,
                       IF outcome \in {"copied", "copied_unlogged"}
                       THEN count + 1 ELSE count,
                       Append(offered, key))

\* bot_copy.py:358-405
check_and_copy(st, outcomes_of, loss_at) ==
    LET new_trades == NewTrades(st)
        drained == IF st.attached THEN [st EXCEPT !.trade_queue = <<>>]
                   ELSE st
    IN  IF new_trades = <<>>
        THEN [st |-> drained, count |-> 0, offered |-> <<>>]
        ELSE IF loss_at = 1
        THEN [st |-> [drained EXCEPT
                         !.seen_keys = @ \cup SeqRange(new_trades),
                         !.deferred = @ \ SeqRange(new_trades)],
              count |-> 0, offered |-> <<>>]
        ELSE LET r == copy_loop(drained, new_trades, outcomes_of, loss_at,
                                1, 0, <<>>)
                 kept == {new_trades[i] : i \in
                             {j \in DOMAIN new_trades :
                                 \/ j > Len(r.offered)
                                 \/ outcomes_of[j] = "retry"}}
             IN  [st |-> [r.st EXCEPT
                            !.deferred = (@ \ SeqRange(r.offered)) \cup kept],
                  count |-> r.count, offered |-> r.offered]

CheckAndCopy ==
    /\ Len(dIn.copies) < MaxCopies
    /\ \E outcomes_of \in [DOMAIN NewTrades(dIn) -> ExecuteOutcomes],
          loss_at \in 0..Len(NewTrades(dIn)) :
          LET r == check_and_copy(dIn, outcomes_of, loss_at)
          IN  /\ dIn' = r.st
              /\ dOut' = [offered |-> r.offered, count |-> r.count]
    /\ UNCHANGED <<arena_vars, pnlIn>>

\* The arena is restarted: a new CopyBot loads the stored keys
\* (bot_copy.py:70-80), or none when the query fails (81-82), and a new
\* monitor is attached when one is used.
Restart ==
    /\ \E loaded \in {dIn.persisted, {}} :
          dIn' = NewCopyBot(loaded, dIn.attached, dIn)
    /\ dOut' = NoCycle
    /\ UNCHANGED <<arena_vars, pnlIn>>

NextCopy ==
    \/ WalletActivity
    \/ MonitorPoll
    \/ CheckAndCopy
    \/ Restart

SpecCopy == InitCopy /\ [][NextCopy]_vars

\* C35: a source key leads to at most one executed copy trade, over any
\* sequence of check_and_copy cycles, with and without a monitor, and
\* across restarts.
C35_NoRecopy ==
    \A i, j \in DOMAIN dIn.copies : dIn.copies[i] = dIn.copies[j] => i = j

\* A deferred trade can still reach _execute_one: with a monitor it is
\* queued or the monitor has not marked it; when polling, the bot has not
\* marked it and the API lists it.
Reofferable(key) ==
    IF dIn.attached
    THEN \/ key \in SeqRange(dIn.trade_queue)
         \/ key \notin dIn.monitor_seen /\ key \in SeqRange(dIn.activity)
    ELSE key \notin dIn.seen_keys /\ key \in SeqRange(dIn.activity)

\* C36: a trade that check_and_copy deferred (left over at the per-cycle
\* cap, or recent with its market not indexed yet) is offered to
\* _execute_one again by a later call, when polling and with a monitor.
C36_DeferredOfferedLater ==
    \A key \in dIn.deferred : Reofferable(key)


(***************************************************************************)
(* One dedup epoch of the main loop with market 1 listed                   *)
(***************************************************************************)
InitScan ==
    /\ bots = create_default_bots
    /\ traded = {}
    /\ ledger = <<>>
    /\ outcomes = [m \in Markets |-> IF m = 1 THEN "none" ELSE "future"]
    /\ cycle_number = 0
    /\ pc = "top"
    /\ scan = NoScan
    /\ day = 0
    /\ mode \in Modes
    /\ bot_configs = ConfigRows(create_default_bots)
    /\ history = <<>>
    /\ evt = NoEvt
    /\ execCalls = EmptyBag
    /\ dIn = <<>>
    /\ dOut = NoDecision
    /\ pnlIn = <<>>

NextScan ==
    \/ EvolutionNotDue
    \/ ResolveTrades
    \/ Discover
    \/ SkipPair
    \/ ProcessPairUpTo(MaxRows)
    \/ Sleep

SpecScan == InitScan /\ [][NextScan]_vars

\* The trades placed in the current epoch for the pair.
TradesFor(key) ==
    {k \in DOMAIN ledger :
        /\ ledger[k].bot_name = key[1]
        /\ ledger[k].market_id = key[2]
        /\ ledger[k].epoch = cycle_number}

MaxDecisions == 2

\* market prices in hundredths, at decision and in the resolved listing
FeaturePrices == {20, 50, 80}

\* feed closes handed to make_decision as signals["prices"]
FeedHistories == {<<>>, <<100>>, <<100, 100>>, <<100, 101>>, <<101, 100>>}

\* base_bot.py:74-80  one-candle momentum, in millionths; zero when the
\* feed has fewer than two closes
price_momentum(prices) ==
    IF Len(prices) >= 2 THEN momentum_of(prices, 2) ELSE 0

\* learning.extract_features(price, momentum): the key is derived from the
\* market price and the momentum (a price band and a momentum direction)
extract_features(market_price, momentum) ==
    [price    |-> IF market_price < 40 THEN "low"
                  ELSE IF market_price > 60 THEN "high" ELSE "mid",
     momentum |-> IF momentum > 0 THEN "up"
                  ELSE IF momentum < 0 THEN "down" ELSE "flat"]

\* base_bot.py:82, 86, 122  the key make_decision queries the oracle with
\* and returns in the decision's features field
decision_features(market_price, prices) ==
    extract_features(market_price, price_momentum(prices))

\* arena.py:264-265  the key resolve_trades records the outcome under:
\* the resolved listing's price and a momentum of 0.0
resolution_features(market_price) == extract_features(market_price, 0)

InitBias ==
    /\ ArenaInit
    /\ mode = "paper"
    /\ dIn = <<>>
    /\ dOut = [op |-> "init"]
    /\ pnlIn = <<>>

\* base_bot.py:59-123 then main_loop logging the trade: the decision's key
\* is the one passed to get_learned_bias
DecideTrade ==
    /\ Len(dIn) < MaxDecisions
    /\ \E b \in 1..2, market_price \in FeaturePrices,
          prices \in FeedHistories, side \in Sides :
         LET features == decision_features(market_price, prices)
         IN  dIn' = Append(dIn, [bot_name  |-> b,
                                 side      |-> side,
                                 queried   |-> features,
                                 features  |-> features,
                                 outcome   |-> "pending",
                                 recorded  |-> <<>>])
    /\ dOut' = [op |-> "make_decision"]
    /\ UNCHANGED <<arena_vars, pnlIn>>

\* arena.py:237-268  one pending trade of a resolved market: the row is
\* resolved and record_outcome is called with the key computed there
ResolveTrade ==
    /\ \E i \in DOMAIN dIn, market_price \in FeaturePrices, won \in BOOLEAN :
         /\ dIn[i].outcome = "pending"
         /\ dIn' = [dIn EXCEPT ![i].outcome = IF won THEN "win" ELSE "loss",
                               ![i].recorded =
                                   <<resolution_features(market_price)>>]
    /\ dOut' = [op |-> "resolve_trades"]
    /\ UNCHANGED <<arena_vars, pnlIn>>

NextBias == DecideTrade \/ ResolveTrade

SpecBias == InitBias /\ [][NextBias]_vars

\* C40: for every resolved trade, the feature key passed to record_outcome
\* equals the key make_decision passed to get_learned_bias and returned in
\* the decision's features field.
C40_OutcomeRecordedUnderDecisionKey ==
    \A i \in DOMAIN dIn :
        dIn[i].recorded # <<>> =>
            /\ dIn[i].recorded[1] = dIn[i].queried
            /\ dIn[i].recorded[1] = dIn[i].features

\* ---------------------------------------------------------------------
\* An evolution that raises part-way, and the loop's retry
\* (arena.py:70-135, 300-307, 361-366)
\* ---------------------------------------------------------------------

MaxAttempts == 2

\* The rankings the tournament is run on
RetryPnls == {<<50, -10, 5, -30>>, <<5, 5, 5, 5>>}

InitRetry ==
    /\ InitEvo
    /\ pnlIn \in RetryPnls

\* Where run_evolution can raise: while ranking (get_performance, before
\* any effect), while replacing the at-th loser (in create_evolved_bot, in
\* db.retire_bot, in db.save_bot_config, or writing the params file), or in
\* db.log_evolution after the last replacement.
EvolutionFailures ==
    {[at |-> 0, stage |-> "rank"]}
    \cup {[at |-> k, stage |-> st] :
             k \in 1..(Len(create_default_bots) - SURVIVORS_PER_CYCLE),
             st \in {"create", "retire", "save", "file"}}
    \cup {[at |-> Len(create_default_bots) - SURVIVORS_PER_CYCLE + 1,
           stage |-> "log"]}

\* arena.py:70-135 up to the statement that raises: what run_evolution has
\* done to the bot objects of the caller's list and to the store by then
run_evolution_raising(bs, cycle, pnl, parent, suffix, fail) ==
    IF fail.stage = "rank" THEN [bots |-> bs, configs |-> bot_configs]
    ELSE
    LET rankings == Rankings(bs, pnl)
        K == SURVIVORS_PER_CYCLE
        survivor_names == {rankings[i].name : i \in 1..K}
        replaced_names == {rankings[i].name : i \in (K + 1)..Len(rankings)}
        IsSurvivor(b) == b.name \in survivor_names
        IsReplaced(b) == b.name \in replaced_names
        kept == [i \in DOMAIN bs |->
                    IF IsSurvivor(bs[i]) THEN reset_daily(bs[i]) ELSE bs[i]]
        winners == SelectSeq(kept, IsSurvivor)
        replaced == SelectSeq(kept, IsReplaced)
        before == Replace(SubSeq(replaced, 1, fail.at - 1), winners, cycle,
                          parent, suffix, 1,
                          [new_bots |-> winners, configs |-> bot_configs])
    IN  IF fail.stage = "log"
        THEN [bots |-> kept, configs |-> before.configs]
        ELSE LET dead_bot == replaced[fail.at]
                 evolved == create_evolved_bot(winners[parent[fail.at]],
                                               dead_bot.strategy_type, cycle,
                                               suffix[fail.at])
                 retired == retire_bot(before.configs, dead_bot.name)
             IN  [bots |-> kept,
                  configs |->
                      CASE fail.stage \in {"create", "retire"} -> before.configs
                        [] fail.stage = "save" -> retired
                        [] fail.stage = "file" ->
                               Append(retired, ConfigRow(evolved))]

\* arena.py:303-307  the evolution branch runs to the end
EvolutionCompletes ==
    /\ cycle_number < MaxAttempts
    /\ Evolve(pnlIn)
    /\ UNCHANGED <<ledger, outcomes, pc, scan, day, mode, dIn, dOut, pnlIn>>

\* arena.py:303-307, 361-366  cycle_number is incremented, run_evolution
\* raises, the handler logs and sleeps: bots is not reassigned, the dedup
\* set is not cleared, last_evolution is not advanced, so the next
\* iteration runs the evolution again
EvolutionRaises ==
    /\ cycle_number < MaxAttempts
    /\ \E parent \in ParentChoices(Len(bots)),
          suffix \in SuffixChoices(Len(bots)),
          fail \in EvolutionFailures :
         LET part == run_evolution_raising(bots, cycle_number + 1, pnlIn,
                                           parent, suffix, fail)
         IN  /\ bots' = part.bots
             /\ bot_configs' = part.configs
    /\ cycle_number' = cycle_number + 1
    /\ evt' = [OpEvt("run_evolution") EXCEPT !.raised = TRUE]
    /\ UNCHANGED <<traded, ledger, outcomes, pc, scan, day, mode, history,
                   execCalls, dIn, dOut, pnlIn>>

NextRetry == EvolutionCompletes \/ EvolutionRaises

SpecRetry == InitRetry /\ [][NextRetry]_vars

\* db.get_active_bots: the names saved and not retired
ActiveNames(configs) ==
    {configs[k].bot_name : k \in {j \in DOMAIN configs : configs[j].active}}

PopulationNames(bs) == {bs[i].name : i \in DOMAIN bs}

NoRetiredBotTrades == PopulationNames(bots) \subseteq ActiveNames(bot_configs)

NoOrphanConfig == ActiveNames(bot_configs) \subseteq PopulationNames(bots)

CyclesConsecutive == \A i \in DOMAIN history : history[i].cycle_number = i

PauseClearedWithDedup ==
    (\E i \in DOMAIN bots, j \in DOMAIN bots' :
        /\ bots'[j].name = bots[i].name
        /\ bots[i].paused
        /\ ~bots'[j].paused)
    => traded' = {}

\* C37: whatever evolutions raised and were retried, no retired bot is
\* still in the population, no saved child is outside it, pause flags are
\* only cleared together with the dedup set, and the logged cycle numbers
\* are 1, 2, ... without a gap.
C37_EvolutionAllOrNothing ==
    /\ [](NoRetiredBotTrades /\ NoOrphanConfig /\ CyclesConsecutive)
    /\ [][PauseClearedWithDedup]_vars

\* ---------------------------------------------------------------------
\* The store and the population across evolutions and restarts
\* (arena.py:109-123, 395-403)
\* ---------------------------------------------------------------------

\* arena.py:395-401  main: the population is the four default bots; a
\* default bot whose name is not among the store's active bots is saved
main_save_configs(configs) ==
    LET existing == ActiveNames(configs)
        Missing(row) == row.bot_name \notin existing
    IN  configs \o SelectSeq(ConfigRows(create_default_bots), Missing)

\* The process is started again on the same store: main builds the default
\* population and main_loop starts with cycle_number 0 and an empty dedup
\* set (arena.py:395-403, 289-294); the ledger, the config table and the
\* evolution log are what the store holds
RestartArena ==
    /\ bots' = create_default_bots
    /\ bot_configs' = main_save_configs(bot_configs)
    /\ cycle_number' = 0
    /\ traded' = {}
    /\ execCalls' = EmptyBag
    /\ evt' = OpEvt("main")
    /\ UNCHANGED <<ledger, outcomes, pc, scan, day, mode, history,
                   dIn, dOut, pnlIn>>

\* arena.py:303-307  an evolution that completes, in whichever run of the
\* process; the number of cycles in the log is capped
EvolutionRuns ==
    /\ Len(history) < MaxAttempts
    /\ Evolve(pnlIn)
    /\ UNCHANGED <<ledger, outcomes, pc, scan, day, mode, dIn, dOut, pnlIn>>

NextRestart == EvolutionRuns \/ RestartArena

SpecRestart == InitRetry /\ [][NextRestart]_vars

\* C38: between evolutions, the names saved and not retired in the store
\* are exactly the names of the population that trades, after any number
\* of evolution cycles and after a restart.
C38_StoreMatchesPopulation ==
    ActiveNames(bot_configs) = PopulationNames(bots)

====
